---- MODULE Spec2Model ----
(***************************************************************************)
(* Work dispatch ("sling") of gastown: internal/cmd/sling.go, and the      *)
(* lifecycle request processor of its daemon.                              *)
(*                                                                         *)
(* An address is the sequence of its slash-separated segments, so          *)
(* "gastown/crew/Toast" is <<"gastown","crew","Toast">> and "mayor/" is    *)
(* <<"mayor","">> (strings.Split keeps the empty segment after the slash). *)
(* A sling invocation is one process of the CLI; it runs the pipeline one  *)
(* collaborator call (store, mail, session backend) at a time, and other   *)
(* invocations may run between two of its calls.                           *)
(***************************************************************************)
EXTENDS Naturals, Sequences, FiniteSets, TLC

\* ------------------------------------------------------------------ domain

Rig == "gastown"
Town == "town"

\* Invocations (CLI processes) the model follows.
Invocations == {1, 2}

\* Instance names typed on the command line: Toast is a polecat and a crew
\* member of the rig, Nux is neither.
Names == {"Toast", "Nux"}
CrewMembers == {"Toast"}

TargetKinds == {"polecat", "crew", "deacon", "witness", "refinery", "mayor"}

\* The issue and the epic that can be slung, and the root issue a template
\* instantiation by invocation p produces. An id is a tuple of strings.
IssueID == <<"gt-1">>
EpicID == <<"gt-epic">>
RootOf(p) == <<"gt-mol", ToString(p)>>
NoID == <<>>

\* SlingThing{Kind, ID, Proto}: a template, an issue, an issue with a
\* companion template (--molecule), an epic.
Things ==
    { [kind |-> "proto", id |-> <<"mol-feature">>, proto |-> ""],
      [kind |-> "issue", id |-> IssueID, proto |-> ""],
      [kind |-> "issue", id |-> IssueID, proto |-> "mol-bugfix"],
      [kind |-> "epic", id |-> EpicID, proto |-> ""] }

\* SlingTarget{Kind, Rig, Name} as parseAgentKind returns them.
Targets ==
    { [kind |-> "polecat", rig |-> Rig, name |-> n] : n \in Names } \cup
    { [kind |-> "crew", rig |-> Rig, name |-> n] : n \in Names } \cup
    { [kind |-> k, rig |-> Rig, name |-> ""] : k \in {"deacon", "witness", "refinery"} } \cup
    { [kind |-> "mayor", rig |-> "", name |-> ""] }

\* The address each slingTo* function builds for its target.
AddressOf(t) ==
    CASE t.kind = "polecat" -> <<t.rig, t.name>>
      [] t.kind = "crew" -> <<t.rig, "crew", t.name>>
      [] t.kind = "deacon" -> <<t.rig, "deacon">>
      [] t.kind = "witness" -> <<t.rig, "witness">>
      [] t.kind = "refinery" -> <<t.rig, "refinery">>
      [] t.kind = "mayor" -> <<"mayor", "">>

\* The workflow store each slingTo* function opens: the rig's, or the
\* town's for the mayor.
BeadsPathOf(t) == IF t.kind = "mayor" THEN Town ELSE t.rig

\* checkHookCollision and pinToHook: the handoff record is looked up by the
\* last segment of the address.
RoleOf(agentAddress) ==
    IF Len(agentAddress) >= 2 THEN agentAddress[Len(agentAddress)] ELSE agentAddress[1]

\* A hook record is found by store and role.
HookKey(beadsPath, agentAddress) == <<beadsPath, RoleOf(agentAddress)>>
HookOf(t) == HookKey(BeadsPathOf(t), AddressOf(t))
HookKeys == { HookOf(t) : t \in Targets }

\* The molecule an occupied hook holds before the invocations start.
MolA(key) == <<"gt-a", key[2]>>
IDs == {IssueID, EpicID} \cup {RootOf(p) : p \in Invocations} \cup {MolA(k) : k \in HookKeys}

VARIABLES
    handoff,    \* HookKey -> [records, attached]: the handoff beads of a role and their attachment
    issues,     \* ID -> [status, assignee, pinned]: the work items of the stores
    polecats,   \* names of the polecats that exist in the rig
    worktree,   \* polecat name -> "none" | "clean" | "dirty" | "fresh"
    mail,       \* the messages delivered and unread: [to, kind, issue, by]
    sessions,   \* the running sessions (session names)
    nudges,     \* the nudges sent: [session, issue]
    faults,     \* whether collaborator calls may fail in this run
    inv,        \* invocation -> its flags, position, locals and what it did
    inbox,      \* message id -> [title, sender, status]: the daemon's inbox
    tmux,       \* session name -> [up, role]: the sessions the daemon manages
    lc,         \* the daemon's lifecycle request processor: position, messages left, runs
    daemon,     \* the daemon process: position in Run, channels, in-memory State
    disk,       \* the town's daemon directory: the PID file and the persisted State
    ctl,        \* the callers of StopDaemon and IsRunning: position and what they did
    cli         \* a <target> argument, where it is given, and what parseSlingTarget returned

vars == <<handoff, issues, polecats, worktree, mail, sessions, nudges, faults, inv,
          inbox, tmux, lc, daemon, disk, ctl, cli>>
\* What a sling works on, and what the daemon works on.
slingVars == <<handoff, issues, polecats, worktree, mail, sessions, nudges, inv>>
daemonVars == <<inbox, tmux, lc>>
runVars == <<daemon, disk, ctl>>
cliVars == <<cli>>

\* The outcomes of a collaborator call: TRUE is success.
Outcomes == IF faults THEN {TRUE, FALSE} ELSE {TRUE}

NoAssignee == <<>>
AbsentIssue == [status |-> "absent", assignee |-> NoAssignee, pinned |-> FALSE]
OpenIssue == [status |-> "open", assignee |-> NoAssignee, pinned |-> FALSE]
NoHandoff == [records |-> 0, attached |-> <<>>]

\* session.Manager.SessionName(polecat)
SessionName(rig, name) == <<"gt", rig, name>>

\* ------------------------------------------------------- workflow store

\* beads.ParseAttachmentFields(handoff).AttachedMolecule: the one molecule
\* id the record's attachment field holds, "" when it holds none.
AttachedMolecule(h) == IF Len(h.attached) = 0 THEN NoID ELSE h.attached[Len(h.attached)]

\* b.FindHandoffBead(role): nil when the role has no record.
FindHandoffBead(hs, key) == IF hs[key].records = 0 THEN NoHandoff ELSE hs[key]

\* b.GetOrCreateHandoffBead(role): creates the record only when absent.
GetOrCreateHandoffBead(hs, key) ==
    IF hs[key].records = 0 THEN [hs EXCEPT ![key].records = 1] ELSE hs

\* b.AttachMolecule(handoffID, moleculeID): overwrites the attachment slot.
AttachMolecule(hs, key, moleculeID) == [hs EXCEPT ![key].attached = <<moleculeID>>]

\* b.Pin(id, role): sets the pinned field and the assignee.
Pin(is, id, role) == [is EXCEPT ![id].pinned = TRUE, ![id].assignee = <<role>>]

\* b.Unpin(id)
Unpin(is, id) == [is EXCEPT ![id].pinned = FALSE]

\* b.ReleaseWithReason(id, reason): status open, assignee cleared.
ReleaseWithReason(is, id) == [is EXCEPT ![id].status = "open", ![id].assignee = NoAssignee]

\* polecatMgr.AssignIssue(name, issueID): binds the issue to the polecat.
AssignIssue(is, address, id) ==
    [is EXCEPT ![id].status = "in_progress", ![id].assignee = address]

\* bd mol run <proto> --var assignee=<address>: a new molecule whose root
\* issue is bound to the assignee.
MolRun(is, rootID, assignee) ==
    [is EXCEPT ![rootID] = [status |-> "open", assignee |-> assignee, pinned |-> FALSE]]

\* ------------------------------------------------------ hook coordinator

\* checkHookCollision taking a handoff record for an occupied hook, whether
\* or not its attachment field holds a molecule.
checkHookCollision_RecordOccupies(hs, agentAddress, beadsPath, force, lookupOK) ==
    LET h == FindHandoffBead(hs, HookKey(beadsPath, agentAddress))
        occupant == AttachedMolecule(h)
    IN  IF ~lookupOK \/ h.records = 0 THEN [displaced |-> NoID, err |-> "", occupant |-> NoID]
        ELSE IF ~force THEN [displaced |-> NoID, err |-> "HookOccupied", occupant |-> occupant]
        ELSE [displaced |-> occupant, err |-> "", occupant |-> occupant]

\* checkHookCollision letting a forced sling through without returning the
\* molecule it displaces.
checkHookCollision_ForceDropsOccupant(hs, agentAddress, beadsPath, force, lookupOK) ==
    LET h == FindHandoffBead(hs, HookKey(beadsPath, agentAddress))
        occupant == AttachedMolecule(h)
    IN  IF lookupOK /\ h.records # 0 /\ occupant # NoID /\ ~force
        THEN [displaced |-> NoID, err |-> "HookOccupied", occupant |-> occupant]
        ELSE [displaced |-> NoID, err |-> "", occupant |-> NoID]

\* checkHookCollision returning the error of a failed hook lookup.
checkHookCollision_ReturnsLookupError(hs, agentAddress, beadsPath, force, lookupOK) ==
    LET h == FindHandoffBead(hs, HookKey(beadsPath, agentAddress))
        occupant == AttachedMolecule(h)
    IN  IF ~lookupOK THEN [displaced |-> NoID, err |-> "finding handoff bead", occupant |-> NoID]
        ELSE IF h.records # 0 /\ occupant # NoID
             THEN IF ~force
                  THEN [displaced |-> NoID, err |-> "HookOccupied", occupant |-> occupant]
                  ELSE [displaced |-> occupant, err |-> "", occupant |-> occupant]
        ELSE [displaced |-> NoID, err |-> "", occupant |-> NoID]

\* checkHookCollision(agentAddress, beadsPath, force): the displaced
\* molecule id ("" when none) and the error ("" when none). lookupOK is
\* the outcome of b.FindHandoffBead.
checkHookCollision(hs, agentAddress, beadsPath, force, lookupOK) ==
    LET h == FindHandoffBead(hs, HookKey(beadsPath, agentAddress))
        occupant == AttachedMolecule(h)
    IN  IF ~lookupOK THEN [displaced |-> NoID, err |-> "", occupant |-> NoID]
        ELSE IF h.records = 0 THEN [displaced |-> NoID, err |-> "", occupant |-> NoID]
        ELSE IF occupant # NoID
             THEN IF ~force
                  THEN [displaced |-> NoID, err |-> "HookOccupied", occupant |-> occupant]
                  ELSE [displaced |-> occupant, err |-> "", occupant |-> occupant]
        ELSE [displaced |-> NoID, err |-> "", occupant |-> NoID]

\* releaseDisplacedWork returning early, without an error, when the unpin
\* fails.
releaseDisplacedWork_StopsAtUnpin(is, displacedID, unpinOK, releaseOK) ==
    IF ~unpinOK THEN [issues |-> is, err |-> ""]
    ELSE IF releaseOK
    THEN [issues |-> ReleaseWithReason(Unpin(is, displacedID), displacedID), err |-> ""]
    ELSE [issues |-> Unpin(is, displacedID), err |-> "releasing displaced work"]

\* releaseDisplacedWork(beadsPath, displacedID): unpinOK and releaseOK are
\* the outcomes of b.Unpin and b.ReleaseWithReason.
releaseDisplacedWork(is, displacedID, unpinOK, releaseOK) ==
    LET is1 == IF unpinOK THEN Unpin(is, displacedID) ELSE is
    IN  IF releaseOK
        THEN [issues |-> ReleaseWithReason(is1, displacedID), err |-> ""]
        ELSE [issues |-> is1, err |-> "releasing displaced work"]

\* pinToHook adding the molecule to the attachment field instead of
\* overwriting it.
pinToHook_Appends(hs, is, beadsPath, agentAddress, issueID, moleculeCtx, getOK, attachOK, pinOK) ==
    LET role == RoleOf(agentAddress)
        key == HookKey(beadsPath, agentAddress)
        hs1 == GetOrCreateHandoffBead(hs, key)
        attachedMolecule == IF moleculeCtx # NoID THEN moleculeCtx ELSE issueID
    IN  IF ~getOK THEN [handoff |-> hs, issues |-> is, err |-> "getting handoff bead"]
        ELSE IF ~attachOK THEN [handoff |-> hs1, issues |-> is, err |-> "attaching molecule"]
        ELSE [handoff |-> [hs1 EXCEPT ![key].attached = Append(@, attachedMolecule)],
              issues |-> IF pinOK THEN Pin(is, attachedMolecule, role) ELSE is,
              err |-> ""]

\* pinToHook attaching only to a hook whose attachment field is empty.
pinToHook_KeepsOccupant(hs, is, beadsPath, agentAddress, issueID, moleculeCtx, getOK, attachOK, pinOK) ==
    LET role == RoleOf(agentAddress)
        key == HookKey(beadsPath, agentAddress)
        hs1 == GetOrCreateHandoffBead(hs, key)
        attachedMolecule == IF moleculeCtx # NoID THEN moleculeCtx ELSE issueID
    IN  IF ~getOK THEN [handoff |-> hs, issues |-> is, err |-> "getting handoff bead"]
        ELSE IF ~attachOK THEN [handoff |-> hs1, issues |-> is, err |-> "attaching molecule"]
        ELSE [handoff |-> IF AttachedMolecule(hs1[key]) = NoID
                          THEN AttachMolecule(hs1, key, attachedMolecule) ELSE hs1,
              issues |-> IF pinOK THEN Pin(is, attachedMolecule, role) ELSE is,
              err |-> ""]

\* pinToHook creating a handoff record on every call.
pinToHook_AlwaysCreates(hs, is, beadsPath, agentAddress, issueID, moleculeCtx, getOK, attachOK, pinOK) ==
    LET role == RoleOf(agentAddress)
        key == HookKey(beadsPath, agentAddress)
        hs1 == [hs EXCEPT ![key].records = @ + 1]
        attachedMolecule == IF moleculeCtx # NoID THEN moleculeCtx ELSE issueID
    IN  IF ~getOK THEN [handoff |-> hs, issues |-> is, err |-> "getting handoff bead"]
        ELSE IF ~attachOK THEN [handoff |-> hs1, issues |-> is, err |-> "attaching molecule"]
        ELSE [handoff |-> AttachMolecule(hs1, key, attachedMolecule),
              issues |-> IF pinOK THEN Pin(is, attachedMolecule, role) ELSE is,
              err |-> ""]

\* pinToHook(beadsPath, agentAddress, issueID, moleculeCtx): moleculeCtx is
\* the context's RootIssueID, "" for a nil context. getOK, attachOK and
\* pinOK are the outcomes of b.GetOrCreateHandoffBead, b.AttachMolecule and
\* b.Pin.
pinToHook(hs, is, beadsPath, agentAddress, issueID, moleculeCtx, getOK, attachOK, pinOK) ==
    LET role == RoleOf(agentAddress)
        key == HookKey(beadsPath, agentAddress)
        hs1 == GetOrCreateHandoffBead(hs, key)
        attachedMolecule == IF moleculeCtx # NoID THEN moleculeCtx ELSE issueID
    IN  IF ~getOK THEN [handoff |-> hs, issues |-> is, err |-> "getting handoff bead"]
        ELSE IF ~attachOK THEN [handoff |-> hs1, issues |-> is, err |-> "attaching molecule"]
        ELSE [handoff |-> AttachMolecule(hs1, key, attachedMolecule),
              issues |-> IF pinOK THEN Pin(is, attachedMolecule, role) ELSE is,
              err |-> ""]

\* ------------------------------------------------------------ invocations

Idle == [pc |-> "idle", target |-> [kind |-> "", rig |-> "", name |-> ""],
         thing |-> [kind |-> "", id |-> NoID, proto |-> ""],
         force |-> FALSE, noStart |-> FALSE, create |-> FALSE,
         displacedID |-> NoID, issueID |-> NoID, moleculeCtx |-> NoID,
         result |-> "", occupant |-> NoID, replaced |-> NoID,
         log |-> <<>>, warnings |-> {}, before |-> <<>>]

\* Beside the flags and locals of the invocation: result is "ok" or the
\* error it returned; occupant is the molecule a HookOccupied error names;
\* replaced is the attachment its pinToHook overwrote; log lists the calls it
\* made, in order; warnings names the calls that failed without ending it
\* ("lookup": b.FindHandoffBead failed, "unpin": b.Unpin failed, "flag":
\* b.Pin failed, "workcheck": CheckUncommittedWork failed, "mailcheck":
\* GetMailbox failed, "probe": sessMgr.IsRunning failed); before is the state
\* it started from.
Snapshot == [handoff |-> handoff, issues |-> issues, polecats |-> polecats,
             worktree |-> worktree, mail |-> mail, sessions |-> sessions,
             nudges |-> nudges]

Log(r, step) == [r EXCEPT !.log = Append(@, step)]
Warn(r, step, ok) == IF ok THEN r ELSE [r EXCEPT !.warnings = @ \cup {step}]
Goto(r, next) ==
    IF next = "done" THEN [r EXCEPT !.pc = "done", !.result = "ok"] ELSE [r EXCEPT !.pc = next]
Fail(r, e) == [r EXCEPT !.pc = "done", !.result = e]
\* A sling does not touch the daemon's inbox or the sessions it manages.
Set(p, r) == inv' = [inv EXCEPT ![p] = r] /\ UNCHANGED <<daemonVars, runVars, cliVars>>

\* runSling: the flags and arguments of one invocation, and the route by
\* target kind. --create and --no-start are read by slingToPolecat only.
EntryOf(kind) ==
    CASE kind = "polecat" -> "get"
      [] kind = "crew" -> "stat"
      [] kind = "deacon" -> "sync1"
      [] OTHER -> "check"

runSling(p, target, thing, force, noStart, create) ==
    /\ inv[p].pc = "idle"
    /\ Set(p, [Idle EXCEPT !.pc = EntryOf(target.kind), !.target = target, !.thing = thing,
                           !.force = force, !.noStart = noStart, !.create = create,
                           !.before = Snapshot])
    /\ UNCHANGED <<handoff, issues, polecats, worktree, mail, sessions, nudges, faults>>

PolecatFlags(target) == IF target.kind = "polecat" THEN BOOLEAN ELSE {FALSE}

\* ------------------------------------------------------- pipeline steps
\* Each step is one call of a slingTo* function; next is the position the
\* function continues at.

\* displacedID, err := checkHookCollision(address, beadsPath, slingForce),
\* the early return on err, and the branch on displacedID.
CollisionStep(p, next) ==
    /\ inv[p].pc = "check"
    /\ \E lookupOK \in Outcomes :
         LET t == inv[p].target
             c == checkHookCollision(handoff, AddressOf(t), BeadsPathOf(t), inv[p].force, lookupOK)
             r == Warn(Log(inv[p], "check"), "lookup", lookupOK)
         IN  Set(p, IF c.err # "" THEN [Fail(r, c.err) EXCEPT !.occupant = c.occupant]
                    ELSE IF c.displaced # NoID
                         THEN [Goto(r, "release") EXCEPT !.displacedID = c.displaced]
                    ELSE Goto(r, next))
    /\ UNCHANGED <<handoff, issues, polecats, worktree, mail, sessions, nudges, faults>>

\* if displacedID != "" { releaseDisplacedWork(...) }: an error is a warning.
ReleaseStep(p, next) ==
    /\ inv[p].pc = "release"
    /\ \E unpinOK \in Outcomes, releaseOK \in Outcomes :
         LET rel == releaseDisplacedWork(issues, inv[p].displacedID, unpinOK, releaseOK)
         IN  /\ issues' = rel.issues
             /\ Set(p, Goto(Warn(Warn(Log(inv[p], "release"), "unpin", unpinOK),
                                  "release", rel.err = ""), next))
    /\ UNCHANGED <<handoff, polecats, worktree, mail, sessions, nudges, faults>>

\* syncBeads whose error ends the sling.
SyncStep_IsFatal(p, at, next) ==
    /\ inv[p].pc = at
    /\ \E ok \in Outcomes :
         Set(p, IF ok THEN Goto(Log(inv[p], at), next)
                ELSE Fail(Warn(Log(inv[p], at), at, ok), "syncing beads"))
    /\ UNCHANGED <<handoff, issues, polecats, worktree, mail, sessions, nudges, faults>>

\* syncBeads(beadsPath, fromMain): an error is a warning.
SyncStep(p, at, next) ==
    /\ inv[p].pc = at
    /\ \E ok \in Outcomes : Set(p, Goto(Warn(Log(inv[p], at), at, ok), next))
    /\ UNCHANGED <<handoff, issues, polecats, worktree, mail, sessions, nudges, faults>>

\* switch thing.Kind: spawnMoleculeFromProto, spawnMoleculeOnIssue, the
\* bare issue or epic id, or the rejection of the kind. accepts is the set
\* of kinds the target's switch has a non-failing case for.
MaterializeStep(p, accepts, next) ==
    /\ inv[p].pc = "materialize"
    /\ LET th == inv[p].thing
           addr == AddressOf(inv[p].target)
           spawns == th.kind = "proto" \/ (th.kind = "issue" /\ th.proto # "")
       IN  IF th.kind \notin accepts
           THEN /\ Set(p, Fail(inv[p], "KindRejected"))
                /\ UNCHANGED issues
           ELSE IF spawns
           THEN \E ok \in Outcomes :
                  IF ok
                  THEN /\ issues' = MolRun(issues, RootOf(p), addr)
                       /\ Set(p, [Goto(Log(inv[p], "spawn"), next) EXCEPT
                                     !.issueID = RootOf(p), !.moleculeCtx = RootOf(p)])
                  ELSE /\ Set(p, Fail(Log(inv[p], "spawn"), "running molecule"))
                       /\ UNCHANGED issues
           ELSE /\ Set(p, [Goto(inv[p], next) EXCEPT !.issueID = th.id])
                /\ UNCHANGED issues
    /\ UNCHANGED <<handoff, polecats, worktree, mail, sessions, nudges, faults>>

\* pinToHook(beadsPath, address, issueID, moleculeCtx): an error is a warning.
PinStep(p, next) ==
    /\ inv[p].pc = "pin"
    /\ \E getOK \in Outcomes, attachOK \in Outcomes, pinOK \in Outcomes :
         LET t == inv[p].target
             pin == pinToHook(handoff, issues, BeadsPathOf(t), AddressOf(t), inv[p].issueID,
                              inv[p].moleculeCtx, getOK, attachOK, pinOK)
         IN  /\ handoff' = pin.handoff
             /\ issues' = pin.issues
             /\ Set(p, [Goto(Warn(Warn(Log(inv[p], "pin"), "pin", pin.err = ""),
                                   "flag", pin.err # "" \/ pinOK), next) EXCEPT
                           !.replaced = IF pin.err = "" THEN AttachedMolecule(handoff[HookOf(t)])
                                        ELSE NoID])
    /\ UNCHANGED <<polecats, worktree, mail, sessions, nudges, faults>>

\* router.Send(buildWorkAssignmentMail(...)): fatal for a polecat, a warning
\* for crew and mayor.
NotifyStep(p, fatal, next) ==
    /\ inv[p].pc = "notify"
    /\ \E ok \in Outcomes :
         IF ok
         THEN /\ mail' = mail \cup {[to |-> AddressOf(inv[p].target), kind |-> "work",
                                     issue |-> inv[p].issueID, by |-> p]}
              /\ Set(p, Goto(Log(inv[p], "mail"), next))
         ELSE /\ UNCHANGED mail
              /\ Set(p, IF fatal THEN Fail(Log(inv[p], "mail"), "sending work assignment")
                        ELSE Goto(Warn(Log(inv[p], "mail"), "mail", FALSE), next))
    /\ UNCHANGED <<handoff, issues, polecats, worktree, sessions, nudges, faults>>

\* ---------------------------------------------------------- slingToPolecat

\* GetPolecat going on to create the polecat whether or not --create is set.
GetPolecat_CreatesAnyway(p) ==
    /\ inv[p].pc = "get"
    /\ \E ok \in Outcomes :
         Set(p, IF inv[p].target.name \notin polecats THEN Goto(inv[p], "add")
                ELSE IF ok THEN Goto(inv[p], "check")
                ELSE Fail(inv[p], "getting polecat"))
    /\ UNCHANGED <<handoff, issues, polecats, worktree, mail, sessions, nudges, faults>>

\* existingPolecat, err := polecatMgr.Get(polecatName), and the branch on
\* it: the polecat exists, is not found (ErrPolecatNotFound: --create or the
\* did-you-mean error), or exists and could not be read.
GetPolecat(p) ==
    /\ inv[p].pc = "get"
    /\ \E ok \in Outcomes :
         Set(p, IF inv[p].target.name \notin polecats
                THEN IF ~inv[p].create THEN Fail(inv[p], "TargetNotFound")
                     ELSE Goto(inv[p], "add")
                ELSE IF ok THEN Goto(inv[p], "check")
                ELSE Fail(inv[p], "getting polecat"))
    /\ UNCHANGED <<handoff, issues, polecats, worktree, mail, sessions, nudges, faults>>

\* polecatMgr.Add(polecatName)
AddPolecat(p) ==
    /\ inv[p].pc = "add"
    /\ \E ok \in Outcomes :
         IF ok
         THEN /\ polecats' = polecats \cup {inv[p].target.name}
              /\ worktree' = [worktree EXCEPT ![inv[p].target.name] = "fresh"]
              /\ Set(p, Goto(Log(inv[p], "create"), "sync1"))
         ELSE /\ UNCHANGED <<polecats, worktree>>
              /\ Set(p, Fail(Log(inv[p], "create"), "creating polecat"))
    /\ UNCHANGED <<handoff, issues, mail, sessions, nudges, faults>>

\* Preflight looking at uncommitted work only.
Preflight_SkipsMailCount(p) ==
    /\ inv[p].pc = "preflight"
    /\ \E checkOK \in Outcomes :
         Set(p, IF checkOK /\ worktree[inv[p].target.name] = "dirty" /\ ~inv[p].force
                THEN Fail(Warn(inv[p], "workcheck", checkOK), "UncommittedWorkPresent")
                ELSE Goto(Warn(inv[p], "workcheck", checkOK), "recreate"))
    /\ UNCHANGED <<handoff, issues, polecats, worktree, mail, sessions, nudges, faults>>

\* pGit.CheckUncommittedWork() and router.GetMailbox(address).Count(): a
\* failed check is skipped; uncommitted work or unread mail stops the sling
\* unless --force.
Preflight(p) ==
    /\ inv[p].pc = "preflight"
    /\ \E checkOK \in Outcomes, mailOK \in Outcomes :
         LET name == inv[p].target.name
             unread == Cardinality({m \in mail : m.to = AddressOf(inv[p].target)})
             r == Warn(inv[p], "workcheck", checkOK)
         IN  Set(p, IF checkOK /\ worktree[name] = "dirty" /\ ~inv[p].force
                    THEN Fail(r, "UncommittedWorkPresent")
                    ELSE IF mailOK /\ unread > 0 /\ ~inv[p].force
                    THEN Fail(Warn(r, "mailcheck", mailOK), "UnreadMailPresent")
                    ELSE Goto(Warn(r, "mailcheck", mailOK), "recreate"))
    /\ UNCHANGED <<handoff, issues, polecats, worktree, mail, sessions, nudges, faults>>

\* polecatMgr.Recreate(polecatName, slingForce)
Recreate(p) ==
    /\ inv[p].pc = "recreate"
    /\ \E ok \in Outcomes :
         IF ok
         THEN /\ worktree' = [worktree EXCEPT ![inv[p].target.name] = "fresh"]
              /\ Set(p, Goto(Log(inv[p], "recreate"), "sync1"))
         ELSE /\ UNCHANGED worktree
              /\ Set(p, Fail(Log(inv[p], "recreate"), "recreating polecat"))
    /\ UNCHANGED <<handoff, issues, polecats, mail, sessions, nudges, faults>>

\* Assign attaching the issue to the hook before it returns its error.
Assign_AttachesBeforeFailing(p) ==
    /\ inv[p].pc = "assign"
    /\ \E ok \in Outcomes :
         IF ok
         THEN /\ issues' = AssignIssue(issues, AddressOf(inv[p].target), inv[p].issueID)
              /\ UNCHANGED handoff
              /\ Set(p, Goto(Log(inv[p], "assign"), "pin"))
         ELSE /\ UNCHANGED issues
              /\ handoff' = AttachMolecule(GetOrCreateHandoffBead(handoff, HookOf(inv[p].target)),
                                           HookOf(inv[p].target), inv[p].issueID)
              /\ Set(p, Fail(Log(inv[p], "assign"), "assigning issue"))
    /\ UNCHANGED <<polecats, worktree, mail, sessions, nudges, faults>>

\* polecatMgr.AssignIssue(polecatName, issueID)
Assign(p) ==
    /\ inv[p].pc = "assign"
    /\ \E ok \in Outcomes :
         IF ok
         THEN /\ issues' = AssignIssue(issues, AddressOf(inv[p].target), inv[p].issueID)
              /\ Set(p, Goto(Log(inv[p], "assign"), "pin"))
         ELSE /\ UNCHANGED issues
              /\ Set(p, Fail(Log(inv[p], "assign"), "assigning issue"))
    /\ UNCHANGED <<handoff, polecats, worktree, mail, sessions, nudges, faults>>

\* Ignite starting a session without asking whether one is running.
Ignite_StartsUnasked(p) ==
    /\ inv[p].pc = "ignite"
    /\ \E startOK \in Outcomes :
         IF startOK
         THEN /\ sessions' = sessions \cup {SessionName(inv[p].target.rig, inv[p].target.name)}
              /\ Set(p, Goto(Log(inv[p], "start"), "nudge"))
         ELSE /\ UNCHANGED sessions
              /\ Set(p, Fail(Log(inv[p], "start"), "starting session"))
    /\ UNCHANGED <<handoff, issues, polecats, worktree, mail, nudges, faults>>

\* running, _ := sessMgr.IsRunning(polecatName); sessMgr.Start when not
\* running. A failed probe reports not running.
Ignite(p) ==
    /\ inv[p].pc = "ignite"
    /\ \E probeOK \in Outcomes, startOK \in Outcomes :
         LET s == SessionName(inv[p].target.rig, inv[p].target.name)
             running == probeOK /\ s \in sessions
             r == Warn(inv[p], "probe", probeOK)
         IN  IF running
             THEN /\ UNCHANGED sessions
                  /\ Set(p, Goto(r, "nudge"))
             ELSE IF startOK
             THEN /\ sessions' = sessions \cup {s}
                  /\ Set(p, Goto(Log(r, "start"), "nudge"))
             ELSE /\ UNCHANGED sessions
                  /\ Set(p, Fail(Log(r, "start"), "starting session"))
    /\ UNCHANGED <<handoff, issues, polecats, worktree, mail, nudges, faults>>

\* t.NudgeSession(sessionName, nudgeMsg): an error is a warning.
Nudge(p) ==
    /\ inv[p].pc = "nudge"
    /\ \E ok \in Outcomes :
         /\ nudges' = IF ok THEN nudges \cup {[session |-> SessionName(inv[p].target.rig, inv[p].target.name),
                                               issue |-> inv[p].issueID]}
                      ELSE nudges
         /\ Set(p, Goto(Warn(Log(inv[p], "nudge"), "nudge", ok), "crossnotify"))
    /\ UNCHANGED <<handoff, issues, polecats, worktree, mail, sessions, faults>>

\* townRouter.Send(spawnNotification) to the rig's witness: an error is a
\* warning.
CrossNotify(p) ==
    /\ inv[p].pc = "crossnotify"
    /\ \E ok \in Outcomes :
         /\ mail' = IF ok THEN mail \cup {[to |-> <<inv[p].target.rig, "witness">>, kind |-> "SLING",
                                           issue |-> inv[p].issueID, by |-> p]}
                    ELSE mail
         /\ Set(p, Goto(Warn(Log(inv[p], "witness"), "witness", ok), "done"))
    /\ UNCHANGED <<handoff, issues, polecats, worktree, sessions, nudges, faults>>

\* slingToPolecat attaching to the hook before it assigns the issue.
slingToPolecat_PinsBeforeAssign(p) ==
    /\ inv[p].target.kind = "polecat"
    /\ \/ GetPolecat(p)
       \/ AddPolecat(p)
       \/ CollisionStep(p, "preflight")
       \/ ReleaseStep(p, "preflight")
       \/ Preflight(p)
       \/ Recreate(p)
       \/ SyncStep(p, "sync1", "materialize")
       \/ MaterializeStep(p, {"proto", "issue"}, "pin")
       \/ Assign(p)
       \/ PinStep(p, IF \E i \in 1..Len(inv[p].log) : inv[p].log[i] = "assign"
                     THEN "sync2" ELSE "assign")
       \/ SyncStep(p, "sync2", IF inv[p].noStart THEN "done" ELSE "notify")
       \/ NotifyStep(p, TRUE, "ignite")
       \/ Ignite(p)
       \/ Nudge(p)
       \/ CrossNotify(p)

slingToPolecat(p) ==
    /\ inv[p].target.kind = "polecat"
    /\ \/ GetPolecat(p)
       \/ AddPolecat(p)
       \/ CollisionStep(p, "preflight")
       \/ ReleaseStep(p, "preflight")
       \/ Preflight(p)
       \/ Recreate(p)
       \/ SyncStep(p, "sync1", "materialize")
       \/ MaterializeStep(p, {"proto", "issue"}, "assign")
       \/ Assign(p)
       \/ PinStep(p, "sync2")
       \/ SyncStep(p, "sync2", IF inv[p].noStart THEN "done" ELSE "notify")
       \/ NotifyStep(p, TRUE, "ignite")
       \/ Ignite(p)
       \/ Nudge(p)
       \/ CrossNotify(p)

\* ------------------------------------------------- the other target kinds

\* if thing.Kind != "proto" { return error }, then the first syncBeads.
DeaconEntry(p) ==
    /\ inv[p].pc = "sync1"
    /\ IF inv[p].thing.kind # "proto"
       THEN /\ Set(p, Fail(inv[p], "KindRejected"))
            /\ UNCHANGED <<handoff, issues, polecats, worktree, mail, sessions, nudges, faults>>
       ELSE SyncStep(p, "sync1", "materialize")

slingToDeacon(p) ==
    /\ inv[p].target.kind = "deacon"
    /\ \/ DeaconEntry(p)
       \/ MaterializeStep(p, {"proto"}, "pin")
       \/ PinStep(p, "sync2")
       \/ SyncStep(p, "sync2", "done")

\* os.Stat(crewPath): the crew member must exist.
CrewStat(p) ==
    /\ inv[p].pc = "stat"
    /\ Set(p, IF inv[p].target.name \in CrewMembers THEN Goto(inv[p], "check")
              ELSE Fail(inv[p], "crew member not found"))
    /\ UNCHANGED <<handoff, issues, polecats, worktree, mail, sessions, nudges, faults>>

\* slingToCrew returning the error of a failed mail delivery.
slingToCrew_MailIsFatal(p) ==
    /\ inv[p].target.kind = "crew"
    /\ \/ CrewStat(p)
       \/ CollisionStep(p, "sync1")
       \/ ReleaseStep(p, "sync1")
       \/ SyncStep(p, "sync1", "materialize")
       \/ MaterializeStep(p, {"proto", "issue", "epic"}, "pin")
       \/ PinStep(p, "sync2")
       \/ SyncStep(p, "sync2", "notify")
       \/ NotifyStep(p, TRUE, "done")

slingToCrew(p) ==
    /\ inv[p].target.kind = "crew"
    /\ \/ CrewStat(p)
       \/ CollisionStep(p, "sync1")
       \/ ReleaseStep(p, "sync1")
       \/ SyncStep(p, "sync1", "materialize")
       \/ MaterializeStep(p, {"proto", "issue", "epic"}, "pin")
       \/ PinStep(p, "sync2")
       \/ SyncStep(p, "sync2", "notify")
       \/ NotifyStep(p, FALSE, "done")

\* slingToWitness taking an epic as it takes an issue.
slingToWitness_AcceptsEpics(p) ==
    /\ inv[p].target.kind = "witness"
    /\ \/ CollisionStep(p, "sync1")
       \/ ReleaseStep(p, "sync1")
       \/ SyncStep(p, "sync1", "materialize")
       \/ MaterializeStep(p, {"proto", "issue", "epic"}, "pin")
       \/ PinStep(p, "sync2")
       \/ SyncStep(p, "sync2", "done")

slingToWitness(p) ==
    /\ inv[p].target.kind = "witness"
    /\ \/ CollisionStep(p, "sync1")
       \/ ReleaseStep(p, "sync1")
       \/ SyncStep(p, "sync1", "materialize")
       \/ MaterializeStep(p, {"proto", "issue"}, "pin")
       \/ PinStep(p, "sync2")
       \/ SyncStep(p, "sync2", "done")

slingToRefinery(p) ==
    /\ inv[p].target.kind = "refinery"
    /\ \/ CollisionStep(p, "sync1")
       \/ ReleaseStep(p, "sync1")
       \/ SyncStep(p, "sync1", "materialize")
       \/ MaterializeStep(p, {"proto", "issue", "epic"}, "pin")
       \/ PinStep(p, "sync2")
       \/ SyncStep(p, "sync2", "done")

slingToMayor(p) ==
    /\ inv[p].target.kind = "mayor"
    /\ \/ CollisionStep(p, "sync1")
       \/ ReleaseStep(p, "sync1")
       \/ SyncStep(p, "sync1", "materialize")
       \/ MaterializeStep(p, {"proto", "issue", "epic"}, "pin")
       \/ PinStep(p, "sync2")
       \/ SyncStep(p, "sync2", "notify")
       \/ NotifyStep(p, FALSE, "done")

\* ---------------------------------------------------------- specifications

\* The daemon process is not started and nobody asks after it; no target
\* argument is being parsed.
NoRun ==
    /\ daemon = [pc |-> "off"]
    /\ disk = [pid |-> "absent"]
    /\ ctl = [query |-> "none"]
    /\ cli = [pc |-> "off"]

\* No daemon runs beside the slings: an empty inbox, no managed session.
NoDaemon ==
    /\ inbox = <<>>
    /\ tmux = <<>>
    /\ lc = [pc |-> "off"]
    /\ NoRun

\* The store before the invocations: every hook absent, every hook an empty
\* record, or every hook holding the molecule an earlier sling at that hook
\* left on it (pinned and bound to the role).
HookStates == {"absent", "empty", "held"}

StoreInit(hookState) ==
    /\ handoff = [k \in HookKeys |->
                    IF hookState = "absent" THEN NoHandoff
                    ELSE IF hookState = "empty" THEN [records |-> 1, attached |-> <<>>]
                    ELSE [records |-> 1, attached |-> <<MolA(k)>>]]
    /\ issues = [i \in IDs |->
                    IF i \in {IssueID, EpicID} THEN OpenIssue
                    ELSE IF \E k \in HookKeys : i = MolA(k)
                    THEN IF hookState = "held"
                         THEN [status |-> "in_progress",
                               assignee |-> <<(CHOOSE k \in HookKeys : i = MolA(k))[2]>>,
                               pinned |-> TRUE]
                         ELSE OpenIssue
                    ELSE AbsentIssue]

OldMail == [to |-> <<Rig, "Toast">>, kind |-> "old", issue |-> NoID, by |-> 0]

Init ==
    /\ \E hookState \in HookStates : StoreInit(hookState)
    /\ polecats = {"Toast"}
    /\ worktree \in {[n \in Names |-> IF n = "Toast" THEN w ELSE "none"] : w \in {"clean", "dirty"}}
    /\ mail \in {{}, {OldMail}}
    /\ sessions \in {{}, {SessionName(Rig, "Toast")}}
    /\ nudges = {}
    /\ faults = TRUE
    /\ inv = [p \in Invocations |-> Idle]
    /\ NoDaemon

\* One sling invocation, of any target, thing and flags.
Sling(p) ==
    \E target \in Targets, thing \in Things, force \in BOOLEAN :
      \E noStart \in PolecatFlags(target), create \in PolecatFlags(target) :
        runSling(p, target, thing, force, noStart, create)

Step(p) ==
    \/ slingToPolecat(p)
    \/ slingToCrew(p)
    \/ slingToDeacon(p)
    \/ slingToWitness(p)
    \/ slingToRefinery(p)
    \/ slingToMayor(p)

Next == Sling(1) \/ Step(1)

Spec == Init /\ [][Next]_vars

\* Two invocations that run at the same time against hooks of one rig that
\* start absent. In the runs where no collaborator call fails they sling at
\* a polecat that exists, a polecat to create, and the crew member who
\* shares the polecat's name, a template or a bare issue; in the runs where
\* calls may fail they sling a template at the crew member.
CrewToast == [kind |-> "crew", rig |-> Rig, name |-> "Toast"]
RaceTargets ==
    IF faults THEN {CrewToast}
    ELSE { [kind |-> "polecat", rig |-> Rig, name |-> n] : n \in Names } \cup {CrewToast}
RaceThings == { th \in Things : th.proto = "" /\ th.kind \in (IF faults THEN {"proto"} ELSE {"proto", "issue"}) }

SlingRace(p) ==
    \E target \in RaceTargets, thing \in RaceThings, force \in BOOLEAN :
      runSling(p, target, thing, force, FALSE, target.kind = "polecat" /\ target.name \notin {"Toast"})

InitRace ==
    /\ StoreInit("absent")
    /\ polecats = {"Toast"}
    /\ worktree = [n \in Names |-> IF n = "Toast" THEN "clean" ELSE "none"]
    /\ mail = {}
    /\ sessions = {}
    /\ nudges = {}
    /\ faults \in BOOLEAN
    /\ inv = [p \in Invocations |-> Idle]
    /\ NoDaemon

NextRace == \E p \in Invocations : SlingRace(p) \/ slingToPolecat(p) \/ slingToCrew(p)

SpecRace == InitRace /\ [][NextRace]_vars

\* ------------------------------------------------------------------ claims

Started(p) == inv[p].pc # "idle"
Done(p) == inv[p].pc = "done"
Succeeded(p) == Done(p) /\ inv[p].result = "ok"
Did(p, step) == \E i \in 1..Len(inv[p].log) : inv[p].log[i] = step
\* The molecule the invocation's pinToHook attaches.
Attaches(p) == IF inv[p].moleculeCtx # NoID THEN inv[p].moleculeCtx ELSE inv[p].issueID
\* Its pinToHook ran and returned no error.
Pinned(p) == Did(p, "pin") /\ "pin" \notin inv[p].warnings
\* Its releaseDisplacedWork ran and returned no error.
Released(p) == Did(p, "release") /\ "release" \notin inv[p].warnings
\* The molecule its target's hook held when it started.
HeldBefore(p) == AttachedMolecule(inv[p].before.handoff[HookOf(inv[p].target)])
\* The target existed when it started.
TargetExisted(p) ==
    /\ inv[p].target.kind = "polecat" => inv[p].target.name \in inv[p].before.polecats
    /\ inv[p].target.kind = "crew" => inv[p].target.name \in CrewMembers
\* Nothing it could write differs from the state it started from.
NothingChanged(p) ==
    /\ handoff = inv[p].before.handoff
    /\ issues = inv[p].before.issues
    /\ polecats = inv[p].before.polecats
    /\ worktree = inv[p].before.worktree
    /\ mail = inv[p].before.mail
    /\ sessions = inv[p].before.sessions
    /\ nudges = inv[p].before.nudges

\* The errors a failed collaborator call ends an invocation with.
CallErrors == {"getting polecat", "creating polecat", "recreating polecat", "running molecule",
               "assigning issue", "sending work assignment", "starting session"}
\* No collaborator call of the invocation has failed.
NoCallFailed(p) == inv[p].warnings = {} /\ inv[p].result \notin CallErrors

\* C1: a sling without force at a target whose hook holds a molecule changes
\* nothing at any point and ends with HookOccupied naming the occupant, for
\* every target kind. Stated for the slings of a template (which every
\* target kind accepts) at a target that exists, in which no collaborator
\* call fails.
C1_UnforcedSlingAtOccupiedHookFails ==
    \A p \in {1} :
        ( /\ Started(p)
          /\ ~inv[p].force
          /\ inv[p].thing.kind = "proto"
          /\ TargetExisted(p)
          /\ NoCallFailed(p)
          /\ HeldBefore(p) # NoID )
        => /\ NothingChanged(p)
           /\ Done(p) => (inv[p].result = "HookOccupied" /\ inv[p].occupant = HeldBefore(p))

\* C2: every hook holds zero or one attached molecule id, whatever the
\* invocations and their interleaving.
C2_HookHoldsAtMostOne ==
    \A k \in HookKeys : Len(handoff[k].attached) <= 1

\* C2 witness: two invocations have attached to the same hook, one after the
\* other.
C2_TwoAttachesToOneHook ==
    \E p \in Invocations, q \in Invocations :
        /\ p # q
        /\ Pinned(p) /\ Pinned(q)
        /\ HookOf(inv[p].target) = HookOf(inv[q].target)
        /\ Attaches(p) # Attaches(q)
        /\ inv[q].replaced = Attaches(p)
        /\ Len(handoff[HookOf(inv[q].target)].attached) = 1

\* C3: a forced sling at an identity whose hook holds A ends with the hook
\* holding the molecule B it dispatched and with A open and unassigned.
\* Stated for the slings at a target that exists that return success and in
\* which no collaborator call fails.
C3_ForcedReslingReleasesOccupant ==
    \A p \in {1} :
        ( /\ Succeeded(p)
          /\ inv[p].force
          /\ NoCallFailed(p)
          /\ TargetExisted(p)
          /\ HeldBefore(p) # NoID )
        => /\ handoff[HookOf(inv[p].target)].attached = <<Attaches(p)>>
           /\ issues[HeldBefore(p)].status = "open"
           /\ issues[HeldBefore(p)].assignee = NoAssignee

\* Two unforced invocations at one hook both returned success, both having
\* attached, q after p.
RacedAttach(p, q) ==
    /\ p # q
    /\ Succeeded(p) /\ Succeeded(q)
    /\ ~inv[p].force /\ ~inv[q].force
    /\ AddressOf(inv[p].target) = AddressOf(inv[q].target)
    /\ HeldBefore(p) = NoID /\ HeldBefore(q) = NoID
    /\ Did(p, "check") /\ Did(q, "check")
    /\ Pinned(p) /\ Pinned(q)
    /\ Attaches(p) # Attaches(q)
    /\ inv[q].replaced = Attaches(p)

\* C4: when two unforced slings at one identity have both passed the
\* collision check and both attached, the hook holds only the later
\* attachment, and the earlier molecule is not attached and no invocation
\* released it.
C4_RaceLosesEarlierMolecule ==
    \A p \in Invocations, q \in Invocations :
        RacedAttach(p, q) =>
            /\ handoff[HookOf(inv[q].target)].attached = <<Attaches(q)>>
            /\ \A k \in HookKeys : AttachedMolecule(handoff[k]) # Attaches(p)
            /\ \A r \in Invocations : inv[r].displacedID # Attaches(p)
            /\ "flag" \notin inv[p].warnings => issues[Attaches(p)].assignee # NoAssignee

\* C4 witness: two unforced slings at the same identity both saw an empty
\* hook, both attached and both returned success.
C4_BothPassedTheCheck ==
    \E p \in Invocations, q \in Invocations :
        /\ RacedAttach(p, q)
        /\ NoCallFailed(p) /\ NoCallFailed(q)

\* C5: a sling at one identity neither reports a collision with, nor
\* displaces or overwrites, work attached for a different identity.
C5_HookPerIdentity ==
    \A p \in Invocations, q \in Invocations :
        ( /\ p # q
          /\ Started(p) /\ Started(q)
          /\ AddressOf(inv[p].target) # AddressOf(inv[q].target)
          /\ Pinned(p) )
        => /\ inv[q].occupant # Attaches(p)
           /\ inv[q].displacedID # Attaches(p)
           /\ inv[q].replaced # Attaches(p)

\* The molecule the hook of the invocation's target holds now.
HeldNow(p) == AttachedMolecule(handoff[HookOf(inv[p].target)])

\* C6: once releaseDisplacedWork has returned without an error, the displaced
\* molecule is open with its assignee cleared, whether or not the unpin
\* inside it failed.
C6_ReleaseLeavesOpenUnassigned ==
    \A p \in {1} :
        Released(p) =>
            /\ issues[inv[p].displacedID].status = "open"
            /\ issues[inv[p].displacedID].assignee = NoAssignee

\* C6 witness: a release whose unpin failed returned no error; the molecule
\* is open and unassigned, and still pinned.
C6_ReleasedThoughUnpinFailed ==
    \E p \in {1} :
        /\ Released(p)
        /\ "unpin" \in inv[p].warnings
        /\ issues[inv[p].displacedID] = [status |-> "open", assignee |-> NoAssignee, pinned |-> TRUE]

\* C6 as stated: after every run of releaseDisplacedWork, failed or not, the
\* displaced molecule is open with its assignee cleared.
C6_ReleaseAlwaysLeavesOpenUnassigned ==
    \A p \in {1} :
        Did(p, "release") =>
            /\ issues[inv[p].displacedID].status = "open"
            /\ issues[inv[p].displacedID].assignee = NoAssignee

\* C7: checkHookCollision at a hook whose record is absent or whose
\* attachment field is empty returns no displacement and no error, with and
\* without force; an invocation that found its hook so goes on without
\* HookOccupied and without a release.
C7_EmptyHookNeverCollides ==
    /\ \A t \in Targets, force \in BOOLEAN, lookupOK \in BOOLEAN :
         AttachedMolecule(FindHandoffBead(handoff, HookOf(t))) = NoID =>
             LET c == checkHookCollision(handoff, AddressOf(t), BeadsPathOf(t), force, lookupOK)
             IN  c.displaced = NoID /\ c.err = ""
    /\ \A p \in {1} :
         (Did(p, "check") /\ HeldBefore(p) = NoID) =>
             /\ inv[p].result # "HookOccupied"
             /\ inv[p].displacedID = NoID
             /\ ~Did(p, "release")

\* C7 witness: an unforced check has passed at a hook whose record exists
\* with an empty attachment field.
C7_CheckedAnEmptyRecord ==
    \E p \in {1} :
        /\ Did(p, "check")
        /\ "lookup" \notin inv[p].warnings
        /\ ~inv[p].force
        /\ inv[p].before.handoff[HookOf(inv[p].target)] = [records |-> 1, attached |-> <<>>]
        /\ inv[p].pc \notin {"check", "done"}

C9_AttachTwiceIsAttachOnce ==
    /\ \A t \in Targets, id \in {IssueID, EpicID} :
         LET once == pinToHook(handoff, issues, BeadsPathOf(t), AddressOf(t), id, NoID,
                               TRUE, TRUE, TRUE)
             twice == pinToHook(once.handoff, once.issues, BeadsPathOf(t), AddressOf(t), id, NoID,
                                TRUE, TRUE, TRUE)
         IN  /\ twice.handoff = once.handoff
             /\ twice.issues = once.issues
             /\ once.handoff[HookOf(t)].records = 1
             /\ once.handoff[HookOf(t)].attached = <<id>>
    /\ \A p \in Invocations, q \in Invocations :
         ( /\ p # q
           /\ Pinned(p) /\ Pinned(q)
           /\ AddressOf(inv[p].target) = AddressOf(inv[q].target)
           /\ Attaches(p) = Attaches(q) )
         => handoff[HookOf(inv[p].target)] = [records |-> 1, attached |-> <<Attaches(p)>>]

\* C9 witness: two invocations have attached the same issue at the same
\* identity, the second over the first.
C9_SameIdAttachedTwice ==
    \E p \in Invocations, q \in Invocations :
        /\ p # q
        /\ Pinned(p) /\ Pinned(q)
        /\ AddressOf(inv[p].target) = AddressOf(inv[q].target)
        /\ Attaches(p) = Attaches(q)
        /\ inv[q].replaced = Attaches(p)

\* C10: a sling at a polecat that does not exist, without --create, makes no
\* call with an effect and changes nothing, and ends with TargetNotFound.
C10_MissingPolecatFailsBeforeEffects ==
    \A p \in {1} :
        ( /\ Started(p)
          /\ inv[p].target.kind = "polecat"
          /\ inv[p].target.name \notin inv[p].before.polecats
          /\ ~inv[p].create )
        => /\ inv[p].pc \in {"get", "done"}
           /\ inv[p].log = <<>>
           /\ NothingChanged(p)
           /\ Done(p) => inv[p].result = "TargetNotFound"

\* C10 witness: a sling at the missing polecat Nux without --create has ended
\* with TargetNotFound.
C10_MissingPolecatRejected ==
    \E p \in {1} :
        /\ Done(p)
        /\ inv[p].target = [kind |-> "polecat", rig |-> Rig, name |-> "Nux"]
        /\ ~inv[p].create
        /\ inv[p].result = "TargetNotFound"

\* The work-assignment message the invocation sends to its target's inbox.
WorkMailOf(p) == [to |-> AddressOf(inv[p].target), kind |-> "work",
                  issue |-> inv[p].issueID, by |-> p]
Delivered(p) == WorkMailOf(p) \in mail
\* The last call the invocation made.
LastStep(p) == IF inv[p].log = <<>> THEN "" ELSE inv[p].log[Len(inv[p].log)]
IsPolecat(p) == Started(p) /\ inv[p].target.kind = "polecat"

\* C11: a successful sling of a template at a polecat that did not exist,
\* with --create and no failing call, ends with the polecat created, its
\* hook holding the root issue of the new molecule, and the work-assignment
\* message in its inbox.
C11_CreateRoundTrip ==
    \A p \in {1} :
        ( /\ IsPolecat(p) /\ Succeeded(p)
          /\ inv[p].target.name \notin inv[p].before.polecats
          /\ inv[p].create
          /\ inv[p].thing.kind = "proto"
          /\ NoCallFailed(p) )
        => /\ inv[p].target.name \in polecats
           /\ HeldNow(p) = RootOf(p)
           /\ Delivered(p)

\* C12: every sling at a polecat that returned success has delivered the
\* work-assignment message, with and without --no-start.
C12_SuccessMeansMailed ==
    \A p \in {1} : (IsPolecat(p) /\ Succeeded(p)) => (Did(p, "mail") /\ Delivered(p))

DidBefore(p, a, b) ==
    \E i \in 1..Len(inv[p].log), j \in 1..Len(inv[p].log) :
        i < j /\ inv[p].log[i] = a /\ inv[p].log[j] = b

\* C14: a sling at a polecat or at a crew member attaches to the hook only
\* after the Assign step bound the issue to the target, and returns success
\* only when Assign ran.
C14_AssignBeforeAttach ==
    \A p \in {1} :
        (Started(p) /\ inv[p].target.kind \in {"polecat", "crew"}) =>
            /\ Did(p, "pin") => DidBefore(p, "assign", "pin")
            /\ Succeeded(p) => Did(p, "assign")

\* The thing kinds the spec lets a target kind take.
AllowedKinds(targetKind) ==
    CASE targetKind = "deacon" -> {"proto"}
      [] targetKind \in {"witness", "polecat"} -> {"proto", "issue"}
      [] OTHER -> {"proto", "issue", "epic"}

\* C15: a sling of a thing kind its target does not take (anything but a
\* template at the deacon, an epic at a witness or a polecat) instantiates
\* nothing, never attaches, and ends with an error; the thing is not on the
\* target's hook.
C15_DisallowedKindNeverAttached ==
    \A p \in {1} :
        (Started(p) /\ inv[p].thing.kind \notin AllowedKinds(inv[p].target.kind)) =>
            /\ ~Did(p, "spawn") /\ ~Did(p, "pin")
            /\ HeldNow(p) # inv[p].thing.id
            /\ handoff = inv[p].before.handoff
            /\ Done(p) => inv[p].result # "ok"

\* C15 witness: a sling of an epic at the witness has ended with the
\* rejection of the kind.
C15_EpicAtWitnessRejected ==
    \E p \in {1} :
        /\ Done(p)
        /\ inv[p].target.kind = "witness"
        /\ inv[p].thing.kind = "epic"
        /\ inv[p].result = "KindRejected"

\* The session of the polecat the invocation slings at.
SessionOf(p) == SessionName(inv[p].target.rig, inv[p].target.name)

\* C16: a sling at a crew member, mayor, witness, refinery or deacon starts
\* and nudges no session. A sling at a polecat calls Start only without
\* --no-start and only when no session of the polecat was running or the
\* running-probe failed; when one was running and the probe succeeded it
\* calls no Start and nudges the session.
C16_SessionsOnlyForPolecats ==
    \A p \in {1} :
        Started(p) =>
            /\ inv[p].target.kind # "polecat" =>
                 /\ ~Did(p, "start") /\ ~Did(p, "nudge")
                 /\ sessions = inv[p].before.sessions
                 /\ nudges = inv[p].before.nudges
            /\ inv[p].target.kind = "polecat" =>
                 /\ Did(p, "start") =>
                      /\ ~inv[p].noStart
                      /\ SessionOf(p) \notin inv[p].before.sessions \/ "probe" \in inv[p].warnings
                 /\ Did(p, "nudge") => ~inv[p].noStart
                 /\ inv[p].noStart => (sessions = inv[p].before.sessions /\ nudges = inv[p].before.nudges)
                 /\ sessions \subseteq inv[p].before.sessions \cup {SessionOf(p)}
                 /\ ( /\ Succeeded(p) /\ ~inv[p].noStart
                      /\ SessionOf(p) \in inv[p].before.sessions
                      /\ "probe" \notin inv[p].warnings )
                    => (~Did(p, "start") /\ Did(p, "nudge"))

\* C16 witness: a sling at a polecat whose session was running has returned
\* success having nudged the session and started none.
C16_RunningSessionOnlyNudged ==
    \E p \in {1} :
        /\ IsPolecat(p) /\ Succeeded(p)
        /\ SessionOf(p) \in inv[p].before.sessions
        /\ ~Did(p, "start")
        /\ [session |-> SessionOf(p), issue |-> inv[p].issueID] \in nudges

\* C16 as stated: a sling at a polecat calls Start only when no session of
\* the polecat is running and --no-start is not set.
C16_StartOnlyWhenNotRunning ==
    \A p \in {1} :
        (IsPolecat(p) /\ Did(p, "start")) =>
            (~inv[p].noStart /\ SessionOf(p) \notin inv[p].before.sessions)

\* C17: a sling at a crew member or at the mayor that got past
\* materialization and has ended has tried to deliver the work-assignment
\* message and returned success; when the delivery failed the hook still
\* holds what the sling attached.
C17_MailFailureIsAWarning ==
    \A p \in {1} :
        (Done(p) /\ inv[p].target.kind \in {"crew", "mayor"} /\ Did(p, "pin")) =>
            /\ Did(p, "mail")
            /\ inv[p].result = "ok"
            /\ "mail" \notin inv[p].warnings => Delivered(p)
            /\ ("mail" \in inv[p].warnings /\ Pinned(p)) =>
                   (HeldNow(p) = Attaches(p) /\ mail = inv[p].before.mail)

\* C17 witness: a sling at the mayor whose mail delivery failed has returned
\* success with its attachment on the hook.
C17_MayorMailFailed ==
    \E p \in {1} :
        /\ Succeeded(p)
        /\ inv[p].target.kind = "mayor"
        /\ "mail" \in inv[p].warnings
        /\ Pinned(p)
        /\ HeldNow(p) = Attaches(p)

\* The polecat had uncommitted work, or unread mail, when the invocation
\* started.
WasDirty(p) == inv[p].before.worktree[inv[p].target.name] = "dirty"
HadUnread(p) == \E m \in inv[p].before.mail : m.to = AddressOf(inv[p].target)
ExistingPolecat(p) == IsPolecat(p) /\ inv[p].target.name \in inv[p].before.polecats
NothingDispatched(p) ==
    /\ ~Did(p, "recreate") /\ ~Did(p, "spawn") /\ ~Did(p, "assign") /\ ~Did(p, "pin")
    /\ NothingChanged(p)
    /\ Done(p) => inv[p].result # "ok"

\* C18: without --force, a sling at an existing polecat whose uncommitted
\* work or unread mail the pre-flight check has read (the check itself did
\* not fail) recreates nothing, materializes, assigns and attaches nothing
\* and ends with an error. With --force the sling is never stopped by
\* uncommitted work or unread mail, and its Recreate leaves a fresh working
\* copy.
C18_PreflightGuard ==
    \A p \in {1} :
        ExistingPolecat(p) =>
            /\ ( /\ ~inv[p].force
                 /\ \/ WasDirty(p) /\ "workcheck" \notin inv[p].warnings
                    \/ HadUnread(p) /\ "mailcheck" \notin inv[p].warnings )
               => NothingDispatched(p)
            /\ inv[p].force =>
                 /\ inv[p].result \notin {"UncommittedWorkPresent", "UnreadMailPresent", "HookOccupied"}
                 /\ Did(p, "sync1") =>
                      (Did(p, "recreate") /\ worktree[inv[p].target.name] = "fresh")

\* C18 witness: an unforced sling was stopped by unread mail at a polecat
\* with a clean working copy, and a forced sling at a polecat with
\* uncommitted work has recreated the working copy.
C18_GuardStoppedAndForcePassed ==
    \E p \in {1} :
        /\ ExistingPolecat(p)
        /\ \/ ~inv[p].force /\ ~WasDirty(p) /\ inv[p].result = "UnreadMailPresent"
           \/ inv[p].force /\ WasDirty(p) /\ HadUnread(p) /\ Did(p, "recreate") /\ Succeeded(p)

\* C18 as stated: without --force, a sling at an existing polecat that has
\* uncommitted work or unread mail recreates, materializes, assigns and
\* attaches nothing.
C18_GuardAlwaysStops ==
    \A p \in {1} :
        (ExistingPolecat(p) /\ ~inv[p].force /\ (WasDirty(p) \/ HadUnread(p)))
        => NothingDispatched(p)

\* ------------------------------------------- daemon: lifecycle requests
\* ProcessLifecycleRequests, which the daemon runs once per heartbeat. A
\* title is the sequence of its characters; an identity is the sequence of
\* its parts, "gastown-witness" being <<"gastown", "-witness">>.

PleaseCycle == <<"p", "l", "e", "a", "s", "e", " ", "c", "y", "c", "l", "e">>
StatusUpdate == <<"s", "t", "a", "t", "u", "s", " ", "u", "p", "d", "a", "t", "e">>
RestartMe == <<"R", "e", "s", "t", "a", "r", "t">>
StopNow == <<"S", "T", "O", "P">>
Titles == {PleaseCycle, StatusUpdate, RestartMe, StopNow}

MayorIdentity == <<"mayor">>
WitnessIdentity == <<Rig, "-witness">>
\* The address form "gastown/witness", which is not of the <rig>-witness form.
WitnessAddress == <<Rig, "/", "witness">>
Senders == {MayorIdentity, WitnessIdentity, WitnessAddress}

\* The messages `bd mail inbox` lists, in the order it lists them.
MsgIds == {"m1", "m2"}
MsgOrder == <<"m1", "m2">>
\* The polls of one run of the daemon.
MaxPolls == 2

\* strings.ToLower
Upper == <<"A", "C", "E", "G", "I", "L", "N", "O", "P", "R", "S", "T", "Y">>
Lower == <<"a", "c", "e", "g", "i", "l", "n", "o", "p", "r", "s", "t", "y">>
ToLowerChar(c) ==
    IF \E i \in 1..Len(Upper) : Upper[i] = c
    THEN Lower[CHOOSE i \in 1..Len(Upper) : Upper[i] = c]
    ELSE c
ToLower(str) == [i \in 1..Len(str) |-> ToLowerChar(str[i])]
\* strings.Contains
Contains(str, sub) ==
    /\ Len(sub) <= Len(str)
    /\ \E i \in 0..(Len(str) - Len(sub)) : SubSeq(str, i + 1, i + Len(sub)) = sub

NoRequest == [from |-> <<>>, action |-> ""]

\* parseLifecycleRequest matching the title as it is written.
parseLifecycleRequest_CaseSensitive(msg) ==
    LET title == msg.title
    IN  IF Contains(title, <<"c", "y", "c", "l", "e">>)
           \/ Contains(title, <<"c", "y", "c", "l", "i", "n", "g">>)
        THEN [from |-> msg.sender, action |-> "cycle"]
        ELSE IF Contains(title, <<"r", "e", "s", "t", "a", "r", "t">>)
        THEN [from |-> msg.sender, action |-> "restart"]
        ELSE IF Contains(title, <<"s", "h", "u", "t", "d", "o", "w", "n">>)
                \/ Contains(title, <<"s", "t", "o", "p">>)
        THEN [from |-> msg.sender, action |-> "shutdown"]
        ELSE NoRequest

\* parseLifecycleRequest(msg): the request of a message, NoRequest for nil.
parseLifecycleRequest(msg) ==
    LET title == ToLower(msg.title)
    IN  IF Contains(title, <<"c", "y", "c", "l", "e">>)
           \/ Contains(title, <<"c", "y", "c", "l", "i", "n", "g">>)
        THEN [from |-> msg.sender, action |-> "cycle"]
        ELSE IF Contains(title, <<"r", "e", "s", "t", "a", "r", "t">>)
        THEN [from |-> msg.sender, action |-> "restart"]
        ELSE IF Contains(title, <<"s", "h", "u", "t", "d", "o", "w", "n">>)
                \/ Contains(title, <<"s", "t", "o", "p">>)
        THEN [from |-> msg.sender, action |-> "shutdown"]
        ELSE NoRequest

\* strings.HasSuffix(identity, "-witness")
IsWitnessIdentity(identity) == identity[Len(identity)] = "-witness"

\* identityToSession giving every identity a session.
identityToSession_AcceptsAny(identity) ==
    IF identity = MayorIdentity THEN <<"gt-mayor">> ELSE <<"gt-">> \o identity

\* identityToSession(identity): <<>> is "", the unknown identity.
identityToSession(identity) ==
    IF identity = MayorIdentity THEN <<"gt-mayor">>
    ELSE IF IsWitnessIdentity(identity) THEN <<"gt-">> \o identity
    ELSE <<>>

DaemonSessions == {identityToSession(i) : i \in Senders} \ {<<>>}
NoRole == <<>>
SessionDown == [up |-> FALSE, role |-> NoRole]

\* restartSession never setting GT_ROLE.
restartSession_SetsNoRole(tm, sessionName, identity, newOK, envOK, keysOK) ==
    IF identity # MayorIdentity /\ ~IsWitnessIdentity(identity)
    THEN [tmux |-> tm, err |-> "don't know how to restart", calls |-> <<>>, dropped |-> {}]
    ELSE IF ~newOK
    THEN [tmux |-> tm, err |-> "creating session", calls |-> <<"new">>, dropped |-> {}]
    ELSE LET tm1 == [tm EXCEPT ![sessionName] = [up |-> TRUE, role |-> NoRole]]
         IN  IF ~keysOK
             THEN [tmux |-> tm1, err |-> "sending startup command",
                   calls |-> <<"new", "keys">>, dropped |-> {}]
             ELSE [tmux |-> tm1, err |-> "", calls |-> <<"new", "keys", "prime">>,
                   dropped |-> {}]

\* restartSession(sessionName, identity): newOK, envOK and keysOK are the
\* outcomes of tmux.NewSession, tmux.SetEnvironment and tmux.SendKeys. The
\* error of SetEnvironment is dropped (dropped names the calls whose failure
\* is dropped); a failed SendKeysDelayed is only logged.
restartSession(tm, sessionName, identity, newOK, envOK, keysOK) ==
    IF identity # MayorIdentity /\ ~IsWitnessIdentity(identity)
    THEN [tmux |-> tm, err |-> "don't know how to restart", calls |-> <<>>, dropped |-> {}]
    ELSE IF ~newOK
    THEN [tmux |-> tm, err |-> "creating session", calls |-> <<"new">>, dropped |-> {}]
    ELSE LET tm1 == [tm EXCEPT ![sessionName] =
                        [up |-> TRUE, role |-> IF envOK THEN identity ELSE NoRole]]
             dropped == IF envOK THEN {} ELSE {"setenv"}
         IN  IF ~keysOK
             THEN [tmux |-> tm1, err |-> "sending startup command",
                   calls |-> <<"new", "setenv", "keys">>, dropped |-> dropped]
             ELSE [tmux |-> tm1, err |-> "", calls |-> <<"new", "setenv", "keys", "prime">>,
                   dropped |-> dropped]

\* executeLifecycleAction killing the session without asking whether it
\* runs: killing a session that does not exist is an error.
executeLifecycleAction_KillsUnchecked(tm, request, hasOK, killOK, newOK, envOK, keysOK) ==
    LET sessionName == identityToSession(request.from)
    IN  IF sessionName = <<>>
        THEN [tmux |-> tm, err |-> "UnknownIdentity", calls |-> <<>>, dropped |-> {}]
        ELSE IF ~tm[sessionName].up \/ ~killOK
        THEN [tmux |-> tm, err |-> "killing session", calls |-> <<"kill">>, dropped |-> {}]
        ELSE IF request.action = "shutdown"
        THEN [tmux |-> [tm EXCEPT ![sessionName] = SessionDown], err |-> "",
              calls |-> <<"kill">>, dropped |-> {}]
        ELSE LET r == restartSession([tm EXCEPT ![sessionName] = SessionDown], sessionName,
                                     request.from, newOK, envOK, keysOK)
             IN  [tmux |-> r.tmux, err |-> IF r.err = "" THEN "" ELSE "restarting session",
                  calls |-> <<"kill">> \o r.calls, dropped |-> r.dropped]

\* executeLifecycleAction starting the new session without killing the old
\* one: creating a session whose name is taken is an error.
executeLifecycleAction_RestartsOverRunning(tm, request, hasOK, killOK, newOK, envOK, keysOK) ==
    LET sessionName == identityToSession(request.from)
    IN  IF sessionName = <<>>
        THEN [tmux |-> tm, err |-> "UnknownIdentity", calls |-> <<>>, dropped |-> {}]
        ELSE IF ~hasOK
        THEN [tmux |-> tm, err |-> "checking session", calls |-> <<"has">>, dropped |-> {}]
        ELSE LET running == tm[sessionName].up
             IN  IF request.action = "shutdown"
                 THEN IF running /\ ~killOK
                      THEN [tmux |-> tm, err |-> "killing session",
                            calls |-> <<"has", "kill">>, dropped |-> {}]
                      ELSE [tmux |-> [tm EXCEPT ![sessionName] = SessionDown], err |-> "",
                            calls |-> IF running THEN <<"has", "kill">> ELSE <<"has">>,
                            dropped |-> {}]
                 ELSE IF running
                 THEN [tmux |-> tm, err |-> "restarting session",
                       calls |-> <<"has", "new">>, dropped |-> {}]
                 ELSE LET r == restartSession(tm, sessionName, request.from,
                                              newOK, envOK, keysOK)
                      IN  [tmux |-> r.tmux,
                           err |-> IF r.err = "" THEN "" ELSE "restarting session",
                           calls |-> <<"has">> \o r.calls, dropped |-> r.dropped]

\* executeLifecycleAction(request): hasOK and killOK are the outcomes of
\* tmux.HasSession and tmux.KillSession.
executeLifecycleAction(tm, request, hasOK, killOK, newOK, envOK, keysOK) ==
    LET sessionName == identityToSession(request.from)
    IN  IF sessionName = <<>>
        THEN [tmux |-> tm, err |-> "UnknownIdentity", calls |-> <<>>, dropped |-> {}]
        ELSE IF ~hasOK
        THEN [tmux |-> tm, err |-> "checking session", calls |-> <<"has">>, dropped |-> {}]
        ELSE LET running == tm[sessionName].up
                 killed == [tm EXCEPT ![sessionName] = SessionDown]
             IN  IF running /\ ~killOK
                 THEN [tmux |-> tm, err |-> "killing session", calls |-> <<"has", "kill">>,
                       dropped |-> {}]
                 ELSE IF request.action = "shutdown"
                 THEN [tmux |-> IF running THEN killed ELSE tm, err |-> "",
                       calls |-> IF running THEN <<"has", "kill">> ELSE <<"has">>,
                       dropped |-> {}]
                 ELSE LET tm1 == IF running THEN killed ELSE tm
                          r == restartSession(tm1, sessionName, request.from, newOK, envOK, keysOK)
                      IN  [tmux |-> r.tmux,
                           err |-> IF r.err = "" THEN "" ELSE "restarting session",
                           calls |-> (IF running THEN <<"has", "kill">> ELSE <<"has">>) \o r.calls,
                           dropped |-> r.dropped]

\* What one execution of a message's request did: the session-backend and
\* store calls made, the error of executeLifecycleAction, the calls whose
\* failure was dropped or only logged, and whether the message was closed.
RunOf(x, closeOK) ==
    [calls |-> IF x.err = "" THEN Append(x.calls, "close") ELSE x.calls,
     err |-> x.err,
     dropped |-> IF x.err = "" /\ ~closeOK THEN x.dropped \cup {"close"} ELSE x.dropped]

\* The rest of the loop after one message.
Continue(l) ==
    [l EXCEPT !.batch = Tail(@), !.pc = IF Len(l.batch) = 1 THEN "idle" ELSE "loop"]

\* What executeLifecycleAction(request) can do and return, over the outcomes
\* of its session-backend calls.
Executions(tm, request) ==
    { executeLifecycleAction(tm, request, hasOK, killOK, newOK, envOK, keysOK) :
        hasOK \in Outcomes, killOK \in Outcomes, newOK \in Outcomes,
        envOK \in Outcomes, keysOK \in Outcomes }

\* bd mail inbox --identity daemon --json: a failed listing, or an empty
\* one, ends the poll.
Poll ==
    /\ lc.pc = "idle"
    /\ lc.polls < MaxPolls
    /\ \E listOK \in Outcomes :
         LET messages == [i \in 1..Len(MsgOrder) |->
                            [id |-> MsgOrder[i], title |-> inbox[MsgOrder[i]].title,
                             sender |-> inbox[MsgOrder[i]].sender,
                             status |-> inbox[MsgOrder[i]].status]]
         IN  lc' = IF ~listOK \/ messages = <<>>
                   THEN [lc EXCEPT !.polls = @ + 1]
                   ELSE [lc EXCEPT !.polls = @ + 1, !.pc = "loop", !.batch = messages]
    /\ UNCHANGED <<inbox, tmux, faults>>
    /\ UNCHANGED <<slingVars, runVars, cliVars>>

\* The loop body closing the message whether or not the action failed.
HandleMessage_ClosesAfterError ==
    /\ lc.pc = "loop"
    /\ LET msg == Head(lc.batch)
           request == parseLifecycleRequest(msg)
       IN  IF msg.status = "closed" \/ request = NoRequest
           THEN /\ lc' = Continue(lc)
                /\ UNCHANGED <<inbox, tmux>>
           ELSE \E x \in Executions(tmux, request), closeOK \in Outcomes :
                  /\ tmux' = x.tmux
                  /\ inbox' = IF closeOK THEN [inbox EXCEPT ![msg.id].status = "closed"]
                              ELSE inbox
                  /\ lc' = [Continue(lc) EXCEPT !.runs[msg.id] = Append(@, RunOf(x, closeOK))]
    /\ UNCHANGED faults
    /\ UNCHANGED <<slingVars, runVars, cliVars>>

\* for _, msg := range messages { ... }: one message of the listing. A
\* closed message and a message that is no lifecycle request are passed
\* over; the message is closed after executeLifecycleAction returned nil;
\* closeOK is the outcome of closeMessage.
HandleMessage ==
    /\ lc.pc = "loop"
    /\ LET msg == Head(lc.batch)
           request == parseLifecycleRequest(msg)
       IN  IF msg.status = "closed" \/ request = NoRequest
           THEN /\ lc' = Continue(lc)
                /\ UNCHANGED <<inbox, tmux>>
           ELSE \E x \in Executions(tmux, request), closeOK \in Outcomes :
                  LET closed == x.err = "" /\ closeOK
                  IN  /\ tmux' = x.tmux
                      /\ inbox' = IF closed THEN [inbox EXCEPT ![msg.id].status = "closed"]
                                  ELSE inbox
                      /\ lc' = [Continue(lc) EXCEPT !.runs[msg.id] = Append(@, RunOf(x, closeOK))]
    /\ UNCHANGED faults
    /\ UNCHANGED <<slingVars, runVars, cliVars>>

ProcessLifecycleRequests == Poll \/ HandleMessage

\* A daemon's inbox of two messages, each open or closed, of any title and
\* sender; each managed session down, or up with its role set.
Messages == [title : Titles, sender : Senders, status : {"open", "closed"}]

InitLifecycle ==
    /\ StoreInit("absent")
    /\ polecats = {"Toast"}
    /\ worktree = [n \in Names |-> IF n = "Toast" THEN "clean" ELSE "none"]
    /\ mail = {}
    /\ sessions = {}
    /\ nudges = {}
    /\ faults = TRUE
    /\ inv = [p \in Invocations |-> Idle]
    /\ inbox \in [MsgIds -> Messages]
    /\ \E up \in SUBSET Senders :
         tmux = [n \in DaemonSessions |->
                   IF \E i \in up : identityToSession(i) = n
                   THEN [up |-> TRUE, role |-> CHOOSE i \in Senders : identityToSession(i) = n]
                   ELSE SessionDown]
    /\ lc = [pc |-> "idle", batch |-> <<>>, polls |-> 0, runs |-> [m \in MsgIds |-> <<>>]]
    /\ NoRun

NextLifecycle == Poll \/ HandleMessage

SpecLifecycle == InitLifecycle /\ [][NextLifecycle]_vars

\* The message the processor handles next, its request and its session.
Handling == Head(lc.batch)
LastRun(l, m) == l.runs[m][Len(l.runs[m])]
\* The step handled a message and no call of its execution failed.
CleanRun(m) ==
    /\ lc'.runs[m] # lc.runs[m]
    /\ LastRun(lc', m).err = ""
    /\ LastRun(lc', m).dropped = {}

\* C19: when the processor handles an open message from the witness
\* identity gastown-witness, a "status update" changes no session and stays
\* open, unexecuted; a "please cycle" none of whose calls fails kills the
\* witness's session if it is running, starts a new one with GT_ROLE set to
\* the identity, leaves the other sessions alone and closes the message.
C19_CycleRestartsAndCloses ==
    [][ (lc.pc = "loop" /\ Handling.status = "open" /\ Handling.sender = WitnessIdentity) =>
          LET m == Handling.id
              name == identityToSession(WitnessIdentity)
          IN  /\ Handling.title = StatusUpdate =>
                   (tmux' = tmux /\ inbox' = inbox /\ lc'.runs = lc.runs)
              /\ (Handling.title = PleaseCycle /\ CleanRun(m)) =>
                   /\ LastRun(lc', m).calls =
                        (IF tmux[name].up THEN <<"has", "kill">> ELSE <<"has">>)
                        \o <<"new", "setenv", "keys", "prime", "close">>
                   /\ tmux' = [tmux EXCEPT ![name] = [up |-> TRUE, role |-> WitnessIdentity]]
                   /\ inbox' = [inbox EXCEPT ![m].status = "closed"] ]_vars

\* C19 witness: one poll has handled a "please cycle" and a "status update"
\* from gastown-witness whose session was running: the session was killed and
\* started again with its role and the first message is closed; the second
\* is open and was not executed.
C19_CycledOnceStatusIgnored ==
    /\ lc.pc = "idle" /\ lc.polls = 1
    /\ inbox["m1"] = [title |-> PleaseCycle, sender |-> WitnessIdentity, status |-> "closed"]
    /\ inbox["m2"] = [title |-> StatusUpdate, sender |-> WitnessIdentity, status |-> "open"]
    /\ lc.runs["m1"] = << [calls |-> <<"has", "kill", "new", "setenv", "keys", "prime", "close">>,
                          err |-> "", dropped |-> {}] >>
    /\ lc.runs["m2"] = <<>>
    /\ tmux[identityToSession(WitnessIdentity)] = [up |-> TRUE, role |-> WitnessIdentity]

\* C20: a message's status changes only from open to closed, in the step
\* that executed its request without an error; a step executes only the
\* request of a message that is open and is a lifecycle request; and a step
\* whose execution returned an error leaves the message as it was.
C20_ClosedOnlyAfterSuccess ==
    [][ \A m \in MsgIds :
          /\ inbox'[m] # inbox[m] =>
               /\ inbox[m].status = "open"
               /\ inbox'[m] = [inbox[m] EXCEPT !.status = "closed"]
               /\ Len(lc'.runs[m]) = Len(lc.runs[m]) + 1
               /\ LastRun(lc', m).err = ""
          /\ lc'.runs[m] # lc.runs[m] =>
               /\ inbox[m].status = "open"
               /\ parseLifecycleRequest(inbox[m]) # NoRequest
               /\ LastRun(lc', m).err # "" => inbox'[m] = inbox[m] ]_vars

\* C20 witness: after two polls a message executed without error in the
\* first is closed and was not executed again, and a message whose action
\* failed twice is still open.
C20_ClosedOnceFailedStaysOpen ==
    \E m \in MsgIds, n \in MsgIds :
        /\ lc.pc = "idle" /\ lc.polls = 2
        /\ inbox[m].status = "closed"
        /\ Len(lc.runs[m]) = 1 /\ LastRun(lc, m).err = ""
        /\ inbox[n].status = "open"
        /\ Len(lc.runs[n]) = 2
        /\ lc.runs[n][1].err # "" /\ lc.runs[n][2].err # ""

\* The request of the message handled next, and whether the step executes it.
Request == parseLifecycleRequest(Handling)
Executes == lc.pc = "loop" /\ Handling.status = "open" /\ Request # NoRequest
KnownIdentity(identity) == identity = MayorIdentity \/ IsWitnessIdentity(identity)

\* C21: executing a request whose sender is neither "mayor" nor ends in
\* "-witness" returns the unknown-identity error without a session call,
\* changes no session, leaves the message open, and the loop goes on to the
\* next message of the listing.
C21_UnknownIdentitySkipped ==
    [][ (Executes /\ ~KnownIdentity(Request.from)) =>
          /\ lc'.runs[Handling.id] =
               Append(lc.runs[Handling.id],
                      [calls |-> <<>>, err |-> "UnknownIdentity", dropped |-> {}])
          /\ tmux' = tmux
          /\ inbox' = inbox /\ inbox[Handling.id].status = "open"
          /\ lc'.batch = Tail(lc.batch)
          /\ lc'.pc = IF Tail(lc.batch) = <<>> THEN "idle" ELSE "loop" ]_vars

\* C21 witness: in one poll the first message, a restart request from
\* gastown/witness, was skipped as unknown and is open, and the second, from
\* the mayor, was executed after it and closed.
C21_SkippedThenNextHandled ==
    /\ lc.pc = "idle" /\ lc.polls = 1
    /\ inbox["m1"] = [title |-> RestartMe, sender |-> WitnessAddress, status |-> "open"]
    /\ lc.runs["m1"] = << [calls |-> <<>>, err |-> "UnknownIdentity", dropped |-> {}] >>
    /\ inbox["m2"].sender = MayorIdentity /\ inbox["m2"].status = "closed"
    /\ Len(lc.runs["m2"]) = 1 /\ lc.runs["m2"][1].err = ""

\* What executeLifecycleAction does when none of its calls fails, and when
\* every call but HasSession would fail.
ExecuteOK(tm, request) == executeLifecycleAction(tm, request, TRUE, TRUE, TRUE, TRUE, TRUE)
ExecuteOnlyProbing(tm, request) ==
    executeLifecycleAction(tm, request, TRUE, FALSE, FALSE, FALSE, FALSE)

\* C22: executing a shutdown request of a known identity never brings a
\* session up; when it returns no error the identity's session is down and
\* the others are as they were, the session having been killed exactly when
\* it was running; and on an identity whose session is not running it needs
\* no call but the probe to succeed, twice over.
C22_ShutdownIdempotent ==
    [][ (Executes /\ Request.action = "shutdown" /\ KnownIdentity(Request.from)) =>
          LET name == identityToSession(Request.from)
              run == LastRun(lc', Handling.id)
          IN  /\ \A n \in DaemonSessions : tmux'[n].up => tmux[n].up
              /\ run.err = "" =>
                   /\ tmux' = [tmux EXCEPT ![name] = SessionDown]
                   /\ run.calls = IF tmux[name].up THEN <<"has", "kill", "close">>
                                  ELSE <<"has", "close">>
              /\ ~tmux[name].up =>
                   /\ ExecuteOnlyProbing(tmux, Request).err = ""
                   /\ ExecuteOnlyProbing(tmux, Request).tmux = tmux
              /\ ExecuteOK(ExecuteOK(tmux, Request).tmux, Request) =
                   [ExecuteOK(tmux, Request) EXCEPT !.calls = <<"has">>] ]_vars

\* C22 witness: two shutdown requests of the witness identity in one poll:
\* the first killed the running session, the second found none and did
\* nothing; both are closed and the session is down.
C22_ShutdownTwice ==
    /\ lc.pc = "idle" /\ lc.polls = 1
    /\ \A m \in MsgIds : inbox[m] = [title |-> StopNow, sender |-> WitnessIdentity,
                                     status |-> "closed"]
    /\ lc.runs["m1"] = << [calls |-> <<"has", "kill", "close">>, err |-> "", dropped |-> {}] >>
    /\ lc.runs["m2"] = << [calls |-> <<"has", "close">>, err |-> "", dropped |-> {}] >>
    /\ tmux[identityToSession(WitnessIdentity)] = SessionDown

\* The session state a request asks for.
Expected(request) ==
    IF request.action = "shutdown" THEN SessionDown
    ELSE [up |-> TRUE, role |-> request.from]
\* The message was executed before without error and is still open.
Reprocessed(m) ==
    /\ lc.runs[m] # <<>>
    /\ LastRun(lc, m).err = ""
    /\ inbox[m].status = "open"

\* C23: when a message whose request was executed without error is executed
\* again because it could not be closed, the request returns no error if none
\* of its calls fails, and an execution none of whose calls fails leaves the
\* sender's session as the request asks (down for shutdown, up with GT_ROLE
\* the sender for cycle and restart) and the other sessions as they were.
C23_ReexecutionIsSafe ==
    [][ (Executes /\ Reprocessed(Handling.id)) =>
          LET name == identityToSession(Request.from)
              run == LastRun(lc', Handling.id)
          IN  /\ ExecuteOK(tmux, Request).err = ""
              /\ ExecuteOK(tmux, Request).tmux = [tmux EXCEPT ![name] = Expected(Request)]
              /\ (run.err = "" /\ "setenv" \notin run.dropped) =>
                   tmux' = [tmux EXCEPT ![name] = Expected(Request)]
              /\ (tmux[name] = Expected(Request) /\ run.err = ""
                  /\ "setenv" \notin run.dropped) => tmux' = tmux ]_vars

\* C23 witness: a cycle request of the witness identity was executed in two
\* polls, the close failing the first time; the second execution killed the
\* session the first had started and started it again with its role.
C23_CycledTwice ==
    /\ lc.pc = "idle" /\ lc.polls = 2
    /\ inbox["m1"] = [title |-> PleaseCycle, sender |-> WitnessIdentity, status |-> "closed"]
    /\ Len(lc.runs["m1"]) = 2
    /\ lc.runs["m1"][1] = [calls |-> <<"has", "new", "setenv", "keys", "prime", "close">>,
                           err |-> "", dropped |-> {"close"}]
    /\ lc.runs["m1"][2] = [calls |-> <<"has", "kill", "new", "setenv", "keys", "prime", "close">>,
                           err |-> "", dropped |-> {}]
    /\ lc.runs["m2"] = <<>>
    /\ tmux[identityToSession(WitnessIdentity)] = [up |-> TRUE, role |-> WitnessIdentity]

\* ------------------------------------------------------------- the daemon
\* Daemon.Run, Stop, IsRunning and StopDaemon. The daemon is one process
\* with one goroutine; its callers are other processes. Each step is one
\* system call or collaborator call of the code.

\* The content of the PID file: absent, the pid of an earlier daemon that is
\* gone, or the pid of this daemon.
PidFiles == {"absent", "old", "live"}
\* The state file: nothing persisted yet, or the State last saved.
NoState == [saved |-> FALSE, pid |-> "", running |-> FALSE, count |-> 0]
\* The heartbeats of one run: the initial one and the ticks.
MaxBeats == MaxPolls
Stoppers == {"s1"}

\* The process exists.
Alive(d) == d.pc \notin {"off", "failed", "stopped", "killed"}
\* The positions of a heartbeat cycle.
InHeartbeat(d) == d.pc \in {"pokeMayor", "pokeWitnesses", "lifecycle"}

\* The lifecycle states of the daemon. Killed is a process ended from
\* outside, by SIGKILL or by a signal it had not yet asked to receive.
Phase(d) ==
    CASE d.pc \in {"pid", "save", "notify"} -> "Starting"
      [] InHeartbeat(d) /\ d.hb = "initial" -> "Starting"
      [] InHeartbeat(d) /\ d.hb = "tick" -> "Running"
      [] d.pc = "select" -> "Running"
      [] d.pc \in {"shutdown", "cleanup"} -> "ShuttingDown"
      [] d.pc = "stopped" -> "Stopped"
      [] d.pc = "failed" -> "Failed"
      [] d.pc = "killed" -> "Killed"
      [] OTHER -> "Off"

\* A signal sent to the daemon process: SIGTERM and SIGINT go to sigChan
\* once signal.Notify has run (the channel holds one signal) and end the
\* process before that; SIGKILL ends it.
Deliver(d, signal) ==
    IF signal = "KILL" \/ ~d.armed THEN [d EXCEPT !.pc = "killed"]
    ELSE [d EXCEPT !.sig = TRUE]

\* os.WriteFile(d.config.PidFile, pid): a failure ends Run with an error.
WritePidFile ==
    /\ daemon.pc = "pid"
    /\ \E ok \in Outcomes :
         IF ok
         THEN /\ disk' = [disk EXCEPT !.pid = "live"]
              /\ daemon' = [daemon EXCEPT !.pc = "save", !.log = Append(@, "pid")]
         ELSE /\ disk' = disk
              /\ daemon' = [daemon EXCEPT !.pc = "failed", !.err = "writing PID file"]
    /\ UNCHANGED <<ctl, faults, slingVars, daemonVars, cliVars>>

\* state := &State{Running: true, ...}; SaveState: a failure is a warning.
SaveStartState ==
    /\ daemon.pc = "save"
    /\ \E ok \in Outcomes :
         /\ disk' = IF ok THEN [disk EXCEPT !.state = [saved |-> TRUE, pid |-> "live", running |-> TRUE, count |-> 0]] ELSE disk
         /\ daemon' = [daemon EXCEPT !.pc = "notify", !.running = TRUE,
                                     !.failed = IF ok THEN @ ELSE @ \cup {"save"}]
    /\ UNCHANGED <<ctl, faults, slingVars, daemonVars, cliVars>>

\* signal.Notify(sigChan, SIGINT, SIGTERM); time.NewTicker; the initial
\* heartbeat begins.
NotifySignals ==
    /\ daemon.pc = "notify"
    /\ daemon' = [daemon EXCEPT !.pc = "pokeMayor", !.armed = TRUE, !.hb = "initial",
                                !.active = @ + 1]
    /\ UNCHANGED <<disk, ctl, faults, slingVars, daemonVars, cliVars>>

\* pokeMayor: a failing HasSession or SendKeys is logged.
pokeMayor ==
    /\ daemon.pc = "pokeMayor"
    /\ \E ok \in Outcomes :
         daemon' = [daemon EXCEPT !.pc = "pokeWitnesses",
                                  !.failed = IF ok THEN @ ELSE @ \cup {"poke"}]
    /\ UNCHANGED <<disk, ctl, faults, slingVars, daemonVars, cliVars>>

\* pokeWitnesses: a failing ListSessions or SendKeys is logged.
pokeWitnesses ==
    /\ daemon.pc = "pokeWitnesses"
    /\ \E ok \in Outcomes :
         daemon' = [daemon EXCEPT !.pc = "lifecycle",
                                  !.failed = IF ok THEN @ ELSE @ \cup {"poke"}]
    /\ UNCHANGED <<disk, ctl, faults, slingVars, daemonVars, cliVars>>

\* processLifecycleRequests: the one poll of this heartbeat and its loop.
processLifecycleRequests ==
    /\ daemon.pc = "lifecycle"
    /\ \/ lc.polls = daemon.count /\ Poll
       \/ HandleMessage

\* The end of heartbeat: HeartbeatCount++ and SaveState, whose failure is a
\* warning; the heartbeat saving state and then ending the run on a failure.
heartbeat_FatalSave ==
    /\ daemon.pc = "lifecycle"
    /\ lc.pc = "idle" /\ lc.polls = daemon.count + 1
    /\ \E ok \in Outcomes :
         /\ disk' = IF ok THEN [disk EXCEPT !.state = [saved |-> TRUE, pid |-> "live", running |-> daemon.running,
                                                       count |-> daemon.count + 1]]
                    ELSE disk
         /\ daemon' = [daemon EXCEPT !.pc = IF ok THEN "select" ELSE "shutdown",
                                     !.hb = "none", !.count = @ + 1,
                                     !.active = @ - 1, !.log = Append(@, "beat"),
                                     !.failed = IF ok THEN @ ELSE @ \cup {"save"}]
    /\ UNCHANGED <<ctl, faults, slingVars, daemonVars, cliVars>>

\* The heartbeat counting only the cycles whose state it could save.
heartbeat_CountsOnlySaved ==
    /\ daemon.pc = "lifecycle"
    /\ lc.pc = "idle" /\ lc.polls = daemon.count + 1
    /\ \E ok \in Outcomes :
         /\ disk' = IF ok THEN [disk EXCEPT !.state = [saved |-> TRUE, pid |-> "live",
                                                       running |-> daemon.running,
                                                       count |-> daemon.count + 1]]
                    ELSE disk
         /\ daemon' = [daemon EXCEPT !.pc = "select", !.hb = "none",
                                     !.count = IF ok THEN @ + 1 ELSE @,
                                     !.active = @ - 1, !.log = Append(@, "beat"),
                                     !.failed = IF ok THEN @ ELSE @ \cup {"save"}]
    /\ UNCHANGED <<ctl, faults, slingVars, daemonVars, cliVars>>

\* heartbeat, after its pokes and its lifecycle processing: HeartbeatCount++
\* and SaveState, whose failure is a warning.
heartbeat ==
    /\ daemon.pc = "lifecycle"
    /\ lc.pc = "idle" /\ lc.polls = daemon.count + 1
    /\ \E ok \in Outcomes :
         /\ disk' = IF ok THEN [disk EXCEPT !.state = [saved |-> TRUE, pid |-> "live", running |-> daemon.running,
                                                       count |-> daemon.count + 1]]
                    ELSE disk
         /\ daemon' = [daemon EXCEPT !.pc = "select", !.hb = "none", !.count = @ + 1,
                                     !.active = @ - 1, !.log = Append(@, "beat"),
                                     !.failed = IF ok THEN @ ELSE @ \cup {"save"}]
    /\ UNCHANGED <<ctl, faults, slingVars, daemonVars, cliVars>>

\* select: case <-d.ctx.Done()
SelectDone ==
    /\ daemon.pc = "select" /\ daemon.cancelled
    /\ daemon' = [daemon EXCEPT !.pc = "shutdown"]
    /\ UNCHANGED <<disk, ctl, faults, slingVars, daemonVars, cliVars>>

\* select: case sig := <-sigChan
SelectSignal ==
    /\ daemon.pc = "select" /\ daemon.sig
    /\ daemon' = [daemon EXCEPT !.pc = "shutdown", !.sig = FALSE]
    /\ UNCHANGED <<disk, ctl, faults, slingVars, daemonVars, cliVars>>

\* select: case <-ticker.C
SelectTick ==
    /\ daemon.pc = "select" /\ daemon.tick
    /\ daemon.count < MaxBeats
    /\ daemon' = [daemon EXCEPT !.pc = "pokeMayor", !.tick = FALSE, !.hb = "tick",
                                !.active = @ + 1]
    /\ UNCHANGED <<disk, ctl, faults, slingVars, daemonVars, cliVars>>

\* shutdown: state.Running = false; SaveState, whose failure is a warning.
shutdown ==
    /\ daemon.pc = "shutdown"
    /\ \E ok \in Outcomes :
         /\ disk' = IF ok THEN [disk EXCEPT !.state = [saved |-> TRUE, pid |-> "live", running |-> FALSE,
                                                       count |-> daemon.count]]
                    ELSE disk
         /\ daemon' = [daemon EXCEPT !.pc = "cleanup", !.running = FALSE,
                                     !.log = Append(@, "shutdown"),
                                     !.failed = IF ok THEN @ ELSE @ \cup {"save"}]
    /\ UNCHANGED <<ctl, faults, slingVars, daemonVars, cliVars>>

\* defer os.Remove(d.config.PidFile), run when Run returns from shutdown.
RemovePidFile ==
    /\ daemon.pc = "cleanup"
    /\ disk' = [disk EXCEPT !.pid = "absent"]
    /\ daemon' = [daemon EXCEPT !.pc = "stopped", !.log = Append(@, "remove")]
    /\ UNCHANGED <<ctl, faults, slingVars, daemonVars, cliVars>>

\* The ticker delivering a tick as if it ran the heartbeat itself.
Tick_RunsHeartbeat ==
    /\ Alive(daemon) /\ daemon.armed /\ daemon.pc \notin {"shutdown", "cleanup"}
    /\ daemon.count < MaxBeats /\ daemon.active < 2
    /\ daemon' = [daemon EXCEPT !.pc = "pokeMayor", !.hb = "tick", !.active = @ + 1]
    /\ UNCHANGED <<disk, ctl, faults, slingVars, daemonVars, cliVars>>

\* The ticker: ticker.C holds one tick; a tick that finds it full is dropped.
Tick ==
    /\ Alive(daemon) /\ daemon.armed /\ ~daemon.tick
    /\ daemon' = [daemon EXCEPT !.tick = TRUE]
    /\ UNCHANGED <<disk, ctl, faults, slingVars, daemonVars, cliVars>>

\* Stop: d.cancel()
Stop ==
    /\ Alive(daemon) /\ ~daemon.cancelled
    /\ daemon' = [daemon EXCEPT !.cancelled = TRUE]
    /\ UNCHANGED <<disk, ctl, faults, slingVars, daemonVars, cliVars>>

\* An interrupt or terminate signal from outside, once.
Interrupt ==
    /\ Alive(daemon) /\ ~ctl.interrupted
    /\ daemon' = Deliver(daemon, "TERM")
    /\ ctl' = [ctl EXCEPT !.interrupted = TRUE]
    /\ UNCHANGED <<disk, faults, slingVars, daemonVars, cliVars>>

\* IsRunning leaving a stale PID file where it is.
IsRunning_KeepsStaleFile(d, dk, readOK) ==
    IF dk.pid = "absent" THEN [running |-> FALSE, pid |-> "", err |-> "", disk |-> dk]
    ELSE IF ~readOK THEN [running |-> FALSE, pid |-> "", err |-> "reading PID file", disk |-> dk]
    ELSE IF dk.pid = "live" /\ Alive(d)
    THEN [running |-> TRUE, pid |-> "live", err |-> "", disk |-> dk]
    ELSE [running |-> FALSE, pid |-> "", err |-> "", disk |-> dk]

\* IsRunning(townRoot): the result and the daemon directory it leaves.
\* readOK is the outcome of os.ReadFile on an existing file; the probe is
\* process.Signal(0).
IsRunning(d, dk, readOK) ==
    IF dk.pid = "absent" THEN [running |-> FALSE, pid |-> "", err |-> "", disk |-> dk]
    ELSE IF ~readOK THEN [running |-> FALSE, pid |-> "", err |-> "reading PID file", disk |-> dk]
    ELSE IF dk.pid = "live" /\ Alive(d)
    THEN [running |-> TRUE, pid |-> "live", err |-> "", disk |-> dk]
    ELSE [running |-> FALSE, pid |-> "", err |-> "", disk |-> [dk EXCEPT !.pid = "absent"]]

\* IsRunning was not called yet.
NoQuery == [called |-> FALSE, before |-> "", alive |-> FALSE, running |-> FALSE, pid |-> "",
            err |-> "", after |-> ""]

\* A caller of IsRunning, once; the query records what it found and returned.
IsRunningCall ==
    /\ ~ctl.query.called
    /\ \E readOK \in Outcomes :
         LET r == IsRunning(daemon, disk, readOK)
         IN  /\ disk' = r.disk
             /\ ctl' = [ctl EXCEPT !.query =
                          [called |-> TRUE, before |-> disk.pid, alive |-> Alive(daemon),
                           running |-> r.running, pid |-> r.pid, err |-> r.err,
                           after |-> r.disk.pid]]
    /\ UNCHANGED <<daemon, faults, slingVars, daemonVars, cliVars>>

\* How a call of StopDaemon ends.
Returned(c, err, pidFile) == [c EXCEPT !.pc = "done", !.err = err, !.pidAtReturn = pidFile]

\* StopDaemon: running, pid, err := IsRunning(townRoot)
StopIsRunning(s) ==
    /\ ctl.stop[s].pc = "idle"
    /\ \E readOK \in Outcomes :
         LET r == IsRunning(daemon, disk, readOK)
             c == ctl.stop[s]
         IN  /\ disk' = r.disk
             /\ ctl' = [ctl EXCEPT !.stop[s] =
                          IF r.err # "" THEN Returned(c, r.err, r.disk.pid)
                          ELSE IF ~r.running
                          THEN Returned(c, "daemon is not running", r.disk.pid)
                          ELSE [c EXCEPT !.pc = "term", !.found = TRUE]]
    /\ UNCHANGED <<daemon, faults, slingVars, daemonVars, cliVars>>

\* StopDaemon: process.Signal(SIGTERM), an error if the process is gone.
StopTerm(s) ==
    /\ ctl.stop[s].pc = "term"
    /\ IF Alive(daemon)
       THEN /\ daemon' = Deliver(daemon, "TERM")
            /\ ctl' = [ctl EXCEPT !.stop[s].pc = "sleep", !.stop[s].sent = Append(@, "TERM")]
       ELSE /\ daemon' = daemon
            /\ ctl' = [ctl EXCEPT !.stop[s] = Returned(@, "sending SIGTERM", disk.pid)]
    /\ UNCHANGED <<disk, faults, slingVars, daemonVars, cliVars>>

\* StopDaemon after the grace period: the probe, and SIGKILL if it succeeds.
StopProbe(s) ==
    /\ ctl.stop[s].pc = "sleep"
    /\ IF Alive(daemon)
       THEN /\ daemon' = Deliver(daemon, "KILL")
            /\ ctl' = [ctl EXCEPT !.stop[s].pc = "remove", !.stop[s].sent = Append(@, "KILL")]
       ELSE /\ daemon' = daemon
            /\ ctl' = [ctl EXCEPT !.stop[s].pc = "remove"]
    /\ UNCHANGED <<disk, faults, slingVars, daemonVars, cliVars>>

\* StopDaemon: os.Remove(pidFile); return nil
StopRemove(s) ==
    /\ ctl.stop[s].pc = "remove"
    /\ disk' = [disk EXCEPT !.pid = "absent"]
    /\ ctl' = [ctl EXCEPT !.stop[s] = Returned(@, "", "absent")]
    /\ UNCHANGED <<daemon, faults, slingVars, daemonVars, cliVars>>

StopDaemon(s) == StopIsRunning(s) \/ StopTerm(s) \/ StopProbe(s) \/ StopRemove(s)

Run ==
    \/ WritePidFile \/ SaveStartState \/ NotifySignals
    \/ pokeMayor \/ pokeWitnesses \/ processLifecycleRequests \/ heartbeat
    \/ SelectDone \/ SelectSignal \/ SelectTick
    \/ shutdown \/ RemovePidFile

\* A town whose daemon is being started: a stop request of the witness and
\* a status update in the inbox, the managed sessions running; the daemon
\* directory empty, or left behind by a daemon that was killed.
InitDaemon ==
    /\ StoreInit("absent")
    /\ polecats = {"Toast"}
    /\ worktree = [n \in Names |-> IF n = "Toast" THEN "clean" ELSE "none"]
    /\ mail = {}
    /\ sessions = {}
    /\ nudges = {}
    /\ faults = TRUE
    /\ inv = [p \in Invocations |-> Idle]
    /\ inbox = [m \in MsgIds |->
                  IF m = "m1"
                  THEN [title |-> StopNow, sender |-> WitnessIdentity, status |-> "open"]
                  ELSE [title |-> StatusUpdate, sender |-> MayorIdentity, status |-> "open"]]
    /\ tmux = [n \in DaemonSessions |->
                 [up |-> TRUE, role |-> CHOOSE i \in Senders : identityToSession(i) = n]]
    /\ lc = [pc |-> "idle", batch |-> <<>>, polls |-> 0, runs |-> [m \in MsgIds |-> <<>>]]
    /\ daemon = [pc |-> "pid", hb |-> "none", count |-> 0, running |-> FALSE,
                 cancelled |-> FALSE, sig |-> FALSE, tick |-> FALSE, armed |-> FALSE,
                 failed |-> {}, err |-> "", active |-> 0, log |-> <<>>]
    /\ disk \in {[pid |-> "absent", state |-> NoState],
                 [pid |-> "old", state |-> [saved |-> TRUE, pid |-> "old", running |-> TRUE, count |-> 1]]}
    /\ ctl = [stop |-> [s \in Stoppers |->
                          [pc |-> "idle", found |-> FALSE, sent |-> <<>>, err |-> "",
                           pidAtReturn |-> ""]],
              query |-> NoQuery, interrupted |-> FALSE]
    /\ cli = [pc |-> "off"]

NextDaemon ==
    \/ Run
    \/ Tick \/ Stop \/ Interrupt
    \/ IsRunningCall
    \/ \E s \in Stoppers : StopDaemon(s)

SpecDaemon == InitDaemon /\ [][NextDaemon]_vars

\* C24: the daemon's state changes only from Starting to Running, when the
\* initial heartbeat completes after the PID file was written; from Starting
\* to a failed run, when writing the PID file fails, with no heartbeat and
\* nothing written; from Running to ShuttingDown, at the select with a
\* signal received or the context cancelled; and from ShuttingDown to
\* Stopped. A failure inside a heartbeat (a poke, a lifecycle action, a
\* state save) leaves it Running, and a daemon that stopped does nothing
\* more. A process ended from outside takes none of these steps.
C24_LifecycleOrder ==
    [][ LET a == Phase(daemon)
            b == Phase(daemon')
        IN  /\ a # b =>
                 \/ /\ a = "Starting" /\ b = "Running"
                    /\ daemon'.log = <<"pid", "beat">>
                 \/ /\ a = "Starting" /\ b = "Failed"
                    /\ daemon'.err = "writing PID file"
                    /\ daemon'.log = <<>> /\ daemon'.count = 0 /\ daemon'.active = 0
                    /\ disk' = disk
                 \/ /\ a = "Running" /\ b = "ShuttingDown"
                    /\ daemon.pc = "select" /\ (daemon.sig \/ daemon.cancelled)
                 \/ a = "ShuttingDown" /\ b = "Stopped"
                 \/ b = "Killed" /\ ctl' # ctl
            /\ a \in {"Stopped", "Failed", "Killed"} => daemon' = daemon
            /\ (a = "Running" /\ (daemon'.failed # daemon.failed \/ lc' # lc)) =>
                 b = "Running" ]_vars

\* C24 witness: a daemon that stopped after two heartbeats in which a poke,
\* a state save and the lifecycle action of the first message had failed.
C24_StoppedAfterFailingHeartbeats ==
    /\ Phase(daemon) = "Stopped"
    /\ daemon.log = <<"pid", "beat", "beat", "shutdown", "remove">>
    /\ daemon.failed = {"poke", "save"}
    /\ Len(lc.runs["m1"]) = 2
    /\ lc.runs["m1"][1].err # "" /\ lc.runs["m1"][2].err # ""

\* The daemon completed its initial heartbeat.
WasRunning(d) == \E i \in 1..Len(d.log) : d.log[i] = "beat"
\* No call of StopDaemon is under way.
NoStopUnderWay == \A s \in Stoppers : ctl.stop[s].pc \in {"idle", "done"}

\* C25: when a daemon that was running is gone, no StopDaemon is under way
\* and no state save failed, the PID file is absent and the persisted state
\* records running = false.
C25_StoppedLeavesNoPidAndNotRunning ==
    (WasRunning(daemon) /\ ~Alive(daemon) /\ NoStopUnderWay /\ "save" \notin daemon.failed) =>
        /\ disk.pid = "absent"
        /\ disk.state.saved /\ ~disk.state.running

\* C26: a call of IsRunning that could read the daemon directory reports
\* not running and leaves no PID file when the file was absent or named a
\* process that is gone, and reports running with the pid, the file in
\* place, when the file named the live daemon; an absent file is no error.
C26_IsRunningReport ==
    LET q == ctl.query
        live == q.before = "live" /\ q.alive
    IN  q.called =>
          /\ q.before = "absent" => q.err = ""
          /\ (q.err = "" /\ ~live) => (~q.running /\ q.after = "absent")
          /\ (q.err = "" /\ live) => (q.running /\ q.pid = "live" /\ q.after = "live")

\* C26 witness: IsRunning found the PID file of this daemon after the
\* process was killed, reported not running and removed the file.
C26_StaleFileRemoved ==
    /\ ctl.query.called
    /\ ctl.query.before = "live" /\ ~ctl.query.alive
    /\ ~ctl.query.running /\ ctl.query.err = ""
    /\ ctl.query.after = "absent" /\ disk.pid = "absent"

\* C27: a StopDaemon that returned found no running daemon, returned an
\* error and sent nothing; or found one, sent SIGTERM first and SIGKILL at
\* most once after it (nothing only if it returned an error), and the PID
\* file was absent when it returned.
C27_StopDaemonContract ==
    \A s \in Stoppers :
        LET c == ctl.stop[s]
        IN  c.pc = "done" =>
              /\ ~c.found => (c.err # "" /\ c.sent = <<>>)
              /\ c.found =>
                   /\ c.sent \in {<<>>, <<"TERM">>, <<"TERM", "KILL">>}
                   /\ c.sent = <<>> => c.err # ""
                   /\ c.pidAtReturn = "absent"

\* C28: at most one heartbeat cycle is in progress; a cycle begins only
\* when none is, from the start of the loop or from the select; a cycle
\* once begun goes on to its end unless the process is killed; and shutdown
\* begins only from the select, with no cycle in progress.
C28_OneEventAtATime ==
    [][ /\ daemon'.active <= 1
        /\ daemon'.active > daemon.active =>
             (daemon.active = 0 /\ daemon.pc \in {"notify", "select"})
        /\ (daemon'.pc = "shutdown" /\ daemon.pc # "shutdown") =>
             (daemon.pc = "select" /\ daemon.active = 0)
        /\ (InHeartbeat(daemon) /\ Alive(daemon')) =>
             \/ InHeartbeat(daemon') /\ daemon'.hb = daemon.hb /\ daemon'.active = 1
             \/ daemon'.pc = "select" /\ daemon'.log = Append(daemon.log, "beat") ]_vars

\* C28 witness: a heartbeat begun by a tick is still in its lifecycle
\* processing while the next tick, a signal and the cancellation are waiting.
C28_EventsWaitForHeartbeat ==
    /\ daemon.pc = "lifecycle" /\ daemon.hb = "tick" /\ lc.pc = "loop"
    /\ daemon.tick /\ daemon.sig /\ daemon.cancelled
    /\ daemon.active = 1

\* ------------------------------------------------------ parseSlingTarget
\* A <target> argument is the sequence of its segments, as strings.Split
\* (arg, "/") returns them: "gastown/polecat/Toast" is <<"gastown",
\* "polecat", "Toast">>, "deacon/" is <<"deacon", "">>, "" is <<"">>.

Segments == {"", "polecat", "Polecats", "CREW", "deacon", "Witness", "mayor", Rig, "Toast"}
MaxSegments == 4
TargetArgs == UNION { [1..n -> Segments] : n \in 1..MaxSegments }

\* strings.ToLower on a segment
ToLowerSegment(seg) ==
    CASE seg = "Polecats" -> "polecats"
      [] seg = "CREW" -> "crew"
      [] seg = "Witness" -> "witness"
      [] seg = "Toast" -> "toast"
      [] OTHER -> seg

\* isAgentRole(s)
isAgentRole(seg) ==
    ToLowerSegment(seg) \in {"polecat", "polecats", "deacon", "witness", "refinery", "crew", "mayor"}

\* The errors of parseSlingTarget, the spec's InvalidTarget.
InvalidTarget ==
    {"cannot infer rig", "polecat target requires a name", "crew target requires a name",
     "invalid target format"}
NoTarget == [kind |-> "", rig |-> "", name |-> ""]
ParseError(err) == [err |-> err, target |-> NoTarget]
Parsed(kind, rig, name) == [err |-> "", target |-> [kind |-> kind, rig |-> rig, name |-> name]]

\* inferRigFromCwd(townRoot): the rig the working directory lies in, "" for
\* a working directory outside every rig, where it fails.
inferRigFromCwd(cwdRig) == [rig |-> cwdRig, err |-> IF cwdRig = "" THEN "cannot infer rig" ELSE ""]

\* parseAgentKind refusing an empty role segment.
parseAgentKind_RejectsEmptyRole(role, name, rigName) ==
    LET r == ToLowerSegment(role)
    IN  CASE r \in {"polecat", "polecats"} ->
               IF name = "" THEN ParseError("polecat target requires a name")
               ELSE Parsed("polecat", rigName, name)
          [] r = "crew" ->
               IF name = "" THEN ParseError("crew target requires a name")
               ELSE Parsed("crew", rigName, name)
          [] r \in {"deacon", "witness", "refinery"} -> Parsed(r, rigName, "")
          [] r = "mayor" -> Parsed("mayor", "", "")
          [] OTHER -> IF r = "" THEN ParseError("polecat target requires a name")
                      ELSE Parsed("polecat", rigName, r)

\* parseAgentKind(role, name, rigName)
parseAgentKind(role, name, rigName) ==
    LET r == ToLowerSegment(role)
    IN  CASE r \in {"polecat", "polecats"} ->
               IF name = "" THEN ParseError("polecat target requires a name")
               ELSE Parsed("polecat", rigName, name)
          [] r = "crew" ->
               IF name = "" THEN ParseError("crew target requires a name")
               ELSE Parsed("crew", rigName, name)
          [] r \in {"deacon", "witness", "refinery"} -> Parsed(r, rigName, "")
          [] r = "mayor" -> Parsed("mayor", "", "")
          [] OTHER -> Parsed("polecat", rigName, r)

\* parseSlingTarget(arg, townRoot), arg given by its segments and the
\* working directory by the rig it lies in.
parseSlingTarget(parts, cwdRig) ==
    LET inferred == inferRigFromCwd(cwdRig)
    IN  CASE Len(parts) = 1 ->
               IF inferred.err # "" THEN ParseError("cannot infer rig")
               ELSE parseAgentKind(parts[1], "", inferred.rig)
          [] Len(parts) = 2 ->
               IF parts[2] = ""
               THEN IF inferred.err # "" THEN ParseError("cannot infer rig")
                    ELSE parseAgentKind(parts[1], "", inferred.rig)
               ELSE IF isAgentRole(parts[1])
               THEN IF inferred.err # "" THEN ParseError("cannot infer rig")
                    ELSE parseAgentKind(parts[1], parts[2], inferred.rig)
               ELSE parseAgentKind(parts[2], "", parts[1])
          [] Len(parts) = 3 -> parseAgentKind(parts[2], parts[3], parts[1])
          [] OTHER -> ParseError("invalid target format")

\* runSling parsing its <target> argument.
ParseTarget ==
    /\ cli.pc = "given"
    /\ cli' = [cli EXCEPT !.pc = "parsed", !.result = parseSlingTarget(cli.arg, cli.cwd)]
    /\ UNCHANGED <<faults, slingVars, daemonVars, runVars>>

\* A <target> argument given in a working directory inside the rig or
\* outside every rig.
InitParse ==
    /\ StoreInit("absent")
    /\ polecats = {"Toast"}
    /\ worktree = [n \in Names |-> IF n = "Toast" THEN "clean" ELSE "none"]
    /\ mail = {}
    /\ sessions = {}
    /\ nudges = {}
    /\ faults = FALSE
    /\ inv = [p \in Invocations |-> Idle]
    /\ inbox = <<>>
    /\ tmux = <<>>
    /\ lc = [pc |-> "off"]
    /\ daemon = [pc |-> "off"]
    /\ disk = [pid |-> "absent"]
    /\ ctl = [query |-> "none"]
    /\ \E arg \in TargetArgs, cwd \in {Rig, ""} :
         cli = [pc |-> "given", arg |-> arg, cwd |-> cwd, result |-> ParseError("")]

NextParse == ParseTarget

SpecParse == InitParse /\ [][NextParse]_vars

\* The segment parseSlingTarget takes for the role, and the one for the name.
RoleSegment(parts) ==
    CASE Len(parts) = 1 -> parts[1]
      [] Len(parts) = 2 -> IF parts[2] = "" \/ isAgentRole(parts[1]) THEN parts[1] ELSE parts[2]
      [] OTHER -> parts[2]
NameSegment(parts) ==
    CASE Len(parts) = 1 -> ""
      [] Len(parts) = 2 -> IF parts[2] # "" /\ isAgentRole(parts[1]) THEN parts[2] ELSE ""
      [] OTHER -> parts[3]

\* C29: a parsed argument of more than 3 segments is an error; so is one
\* whose role segment is polecat, polecats or crew in any letter case with no
\* name; a target returned has one of the six kinds, and a polecat or crew
\* target returned has a name that is not empty.
C29_ParsedTargetsAreWellFormed ==
    cli.pc = "parsed" =>
        LET r == cli.result
        IN  /\ Len(cli.arg) > 3 => r.err \in InvalidTarget
            /\ (Len(cli.arg) <= 3
                /\ ToLowerSegment(RoleSegment(cli.arg)) \in {"polecat", "polecats", "crew"}
                /\ NameSegment(cli.arg) = "") => r.err \in InvalidTarget
            /\ r.err = "" =>
                 /\ r.target.kind \in TargetKinds
                 /\ r.target.kind \in {"polecat", "crew"} => r.target.name # ""

\* The place of each position of slingToPolecat, and of each call it logs,
\* in the order of the pipeline.
PositionRank(pc) ==
    CASE pc = "get" -> 0 [] pc = "add" -> 1 [] pc = "check" -> 1 [] pc = "release" -> 2
      [] pc = "preflight" -> 3 [] pc = "recreate" -> 4 [] pc = "sync1" -> 5
      [] pc = "materialize" -> 6 [] pc = "assign" -> 7 [] pc = "pin" -> 8
      [] pc = "sync2" -> 9 [] pc = "notify" -> 10 [] pc = "ignite" -> 11
      [] pc = "nudge" -> 12 [] pc = "crossnotify" -> 13 [] pc = "done" -> 14
      [] OTHER -> 15
CallRank(step) ==
    CASE step = "check" -> 1 [] step = "release" -> 2 [] step = "create" -> 3
      [] step = "recreate" -> 4 [] step = "sync1" -> 5 [] step = "spawn" -> 6
      [] step = "assign" -> 7 [] step = "pin" -> 8 [] step = "sync2" -> 9
      [] step = "mail" -> 10 [] step = "start" -> 11 [] step = "nudge" -> 12
      [] step = "witness" -> 13 [] OTHER -> 0
DidIn(r, step) == \E i \in 1..Len(r.log) : r.log[i] = step

\* C30: a sling at a polecat moves through collision check, displacement,
\* pre-flight, recreate, sync, materialize, assign, pin, sync, notify, ignite,
\* nudge and cross-notify in that order, never back; the calls it made are in
\* that order, each at most once; the hook attach is attempted only after the
\* assignment, the mail only after the attach, a session start or nudge only
\* after the mail, and the witness notification only after the nudge, as the
\* last call.
C30_PolecatPipelineOrder ==
    [][ \A p \in {1} :
          (inv'[p].pc # "idle" /\ inv'[p].target.kind = "polecat") =>
            LET r == inv'[p]
            IN  /\ (inv[p].pc # "idle" /\ r.pc # inv[p].pc) =>
                     PositionRank(r.pc) > PositionRank(inv[p].pc)
                /\ \A i \in 1..Len(r.log), j \in 1..Len(r.log) :
                     i < j => (CallRank(r.log[i]) > 0
                               /\ CallRank(r.log[i]) < CallRank(r.log[j]))
                /\ DidIn(r, "pin") => DidIn(r, "assign")
                /\ DidIn(r, "mail") => DidIn(r, "pin")
                /\ (DidIn(r, "start") \/ DidIn(r, "nudge")) => DidIn(r, "mail")
                /\ DidIn(r, "witness") =>
                     (DidIn(r, "nudge") /\ r.log[Len(r.log)] = "witness") ]_vars

\* C30 witness: a forced sling of a template at an existing polecat whose
\* hook was occupied succeeded having made every call of the pipeline.
C30_FullPipelineRan ==
    /\ Succeeded(1) /\ inv[1].target.kind = "polecat" /\ NoCallFailed(1)
    /\ inv[1].log = <<"check", "release", "recreate", "sync1", "spawn", "assign", "pin",
                      "sync2", "mail", "start", "nudge", "witness">>

\* The calls whose failure a slingTo* function only warns about, by the
\* names the warnings are recorded under, and the errors a sling ends with.
BestEffort == {"sync1", "sync2", "unpin", "release", "pin", "flag", "nudge", "witness"}
SlingErrors ==
    CallErrors \cup {"HookOccupied", "KindRejected", "TargetNotFound", "UncommittedWorkPresent",
                     "UnreadMailPresent", "crew member not found"}

\* C31: the step in which a store synchronization, the release of the
\* displaced work, the pin, the nudge or the witness notification fails does
\* not end the sling with an error and goes on to the position a success
\* goes on to; a sling ends with success or with the error of a fatal step.
C31_BestEffortNeverAborts ==
    [][ \A p \in {1} :
          /\ (inv'[p].warnings \ inv[p].warnings) \cap BestEffort # {} =>
               /\ inv'[p].result \in {"", "ok"}
               /\ inv'[p].pc # inv[p].pc
               /\ Len(inv'[p].log) = Len(inv[p].log) + 1
          /\ inv'[p].pc = "done" => inv'[p].result \in {"ok"} \cup SlingErrors ]_vars

\* C31 witness: a forced sling at a polecat succeeded although both
\* synchronizations, the release, the pin, the nudge and the witness
\* notification failed.
C31_SucceededThroughWarnings ==
    /\ Succeeded(1) /\ inv[1].target.kind = "polecat"
    /\ {"sync1", "sync2", "release", "pin", "nudge", "witness"} \subseteq inv[1].warnings
    /\ LastStep(1) = "witness"

\* ------------------------------------------------- parseLifecycleRequest
\* Titles made of one to three words with a space between them.

Words ==
    [cycle    |-> <<"c", "y", "c", "l", "e">>,
     Cycling  |-> <<"C", "y", "c", "l", "i", "n", "g">>,
     RESTART  |-> <<"R", "E", "S", "T", "A", "R", "T">>,
     shutdown |-> <<"s", "h", "u", "t", "d", "o", "w", "n">>,
     Stop     |-> <<"S", "t", "o", "p">>,
     status   |-> <<"s", "t", "a", "t", "u", "s">>,
     please   |-> <<"p", "l", "e", "a", "s", "e">>]
MaxWords == 3
WordLists == UNION { [1..n -> DOMAIN Words] : n \in 1..MaxWords }
RECURSIVE TitleOf(_)
TitleOf(ws) ==
    IF Len(ws) = 1 THEN Words[ws[1]]
    ELSE Words[ws[1]] \o <<" ">> \o TitleOf(Tail(ws))

\* The loop of ProcessLifecycleRequests classifying one message.
Classify ==
    /\ lc.pc = "given"
    /\ lc' = [lc EXCEPT !.pc = "classified", !.request = parseLifecycleRequest(lc.msg)]
    /\ UNCHANGED <<inbox, tmux, faults, slingVars, runVars, cliVars>>

InitClassify ==
    /\ StoreInit("absent")
    /\ polecats = {"Toast"}
    /\ worktree = [n \in Names |-> IF n = "Toast" THEN "clean" ELSE "none"]
    /\ mail = {}
    /\ sessions = {}
    /\ nudges = {}
    /\ faults = FALSE
    /\ inv = [p \in Invocations |-> Idle]
    /\ inbox = <<>>
    /\ tmux = <<>>
    /\ NoRun
    /\ \E ws \in WordLists, sender \in Senders :
         lc = [pc |-> "given", words |-> ws,
               msg |-> [id |-> "m1", title |-> TitleOf(ws), sender |-> sender, status |-> "open"],
               request |-> NoRequest]

NextClassify == Classify

SpecClassify == InitClassify /\ [][NextClassify]_vars

\* The title has one of the words.
HasWord(ws, names) == \E i \in 1..Len(ws) : ws[i] \in names

\* C32: a classified message is a cycle request when its title has "cycle"
\* or "cycling" in any letter case; otherwise a restart request when it has
\* "restart"; otherwise a shutdown request when it has "shutdown" or "stop";
\* otherwise no lifecycle request; the sender of a request is the sender of
\* the message.
C32_ClassifiedByKeyword ==
    lc.pc = "classified" =>
        lc.request =
            IF HasWord(lc.words, {"cycle", "Cycling"})
            THEN [from |-> lc.msg.sender, action |-> "cycle"]
            ELSE IF HasWord(lc.words, {"RESTART"})
            THEN [from |-> lc.msg.sender, action |-> "restart"]
            ELSE IF HasWord(lc.words, {"shutdown", "Stop"})
            THEN [from |-> lc.msg.sender, action |-> "shutdown"]
            ELSE NoRequest

\* C32 witness: "please RESTART Stop" was classified a restart request of
\* its sender.
C32_RestartBeforeStop ==
    /\ lc.pc = "classified"
    /\ lc.words = <<"please", "RESTART", "Stop">>
    /\ lc.request = [from |-> lc.msg.sender, action |-> "restart"]

\* C32 as stated, with "cycle" the only keyword of a cycle request.
C32_CycleIsTheOnlyCycleKeyword ==
    lc.pc = "classified" =>
        lc.request =
            IF HasWord(lc.words, {"cycle"})
            THEN [from |-> lc.msg.sender, action |-> "cycle"]
            ELSE IF HasWord(lc.words, {"RESTART"})
            THEN [from |-> lc.msg.sender, action |-> "restart"]
            ELSE IF HasWord(lc.words, {"shutdown", "Stop"})
            THEN [from |-> lc.msg.sender, action |-> "shutdown"]
            ELSE NoRequest

\* ---------------------------------------------------------------------------
\* The heartbeat counter.

\* The number of heartbeat cycles the run has completed.
RECURSIVE Beats(_)
Beats(log) ==
    IF log = <<>> THEN 0
    ELSE (IF Head(log) = "beat" THEN 1 ELSE 0) + Beats(Tail(log))

\* C33: the in-memory heartbeat count is the number of heartbeat cycles completed
\* since the daemon started: it is 1 once the startup heartbeat is done, a
\* completed cycle adds exactly one whether or not its state could be saved,
\* it never decreases, and the count the daemon has persisted never exceeds it.
C33_HeartbeatCountIsCyclesCompleted ==
    [][ /\ daemon.count = Beats(daemon.log)
        /\ daemon'.count = Beats(daemon'.log)
        /\ daemon'.count >= daemon.count
        /\ daemon'.count <= daemon.count + 1
        /\ (daemon.hb = "initial" /\ daemon'.hb = "none") => daemon'.count = 1
        /\ (InHeartbeat(daemon) /\ ~InHeartbeat(daemon') /\ Alive(daemon'))
              => daemon'.count = daemon.count + 1
        /\ disk'.state.pid = "live" => disk'.state.count <= daemon'.count ]_vars

\* Two cycles were counted though neither could save its state.
C33_CountedThroughFailedSaves ==
    /\ daemon.count = 2 /\ Beats(daemon.log) = 2
    /\ daemon.pc = "select"
    /\ "save" \in daemon.failed
    /\ disk.state.pid = "live" /\ disk.state.count = 0

\* ---------------------------------------------------------------------------
\* Failed and rejected slings.

\* The molecule is in the ready pool: open and without assignee.
Ready(id) == issues[id].status = "open" /\ issues[id].assignee = NoAssignee

\* C34: once a sling invocation has ended, with success or with an error, the
\* hook of its target is not attached to a molecule that this invocation has
\* released to the ready pool: the hook does not still hold the displaced
\* molecule A while A is open and unassigned.
C34_EndedSlingLeavesNoReleasedOccupant ==
    \A p \in {1} :
        ( /\ Done(p)
          /\ HeldBefore(p) # NoID
          /\ ~(inv[p].before.issues[HeldBefore(p)].status = "open")
          /\ Did(p, "release") )
        => ~(HeldNow(p) = HeldBefore(p) /\ Ready(HeldBefore(p)))

\* The work items the invocation dispatches: the thing it was given and the
\* molecule it instantiated.
WorkItems(p) == {inv[p].thing.id, inv[p].issueID} \cap IDs

\* C35: a sling invocation that has returned an error has left no partial
\* dispatch: the hook attachment of its target and the assignee of its work
\* item are what they were when it started.
C35_ErrorLeavesNoPartialDispatch ==
    \A p \in {1} :
        (Done(p) /\ inv[p].result # "ok") =>
            /\ handoff[HookOf(inv[p].target)].attached
                  = inv[p].before.handoff[HookOf(inv[p].target)].attached
            /\ \A id \in WorkItems(p) :
                  issues[id].assignee = inv[p].before.issues[id].assignee

\* C36: the rejection of a disallowed thing kind comes before any side
\* effect: a forced sling of an epic at an existing polecat or at a witness
\* never releases the work on the hook, never recreates the polecat's working
\* copy, never synchronizes the store, changes nothing, and ends with an error.
C36_KindRejectedBeforeSideEffects ==
    \A p \in {1} :
        ( /\ Started(p)
          /\ inv[p].force
          /\ inv[p].thing.kind = "epic"
          /\ inv[p].target.kind \in {"polecat", "witness"}
          /\ TargetExisted(p) )
        => /\ ~Did(p, "release") /\ ~Did(p, "recreate") /\ ~Did(p, "sync1")
           /\ NothingChanged(p)
           /\ Done(p) => inv[p].result # "ok"

TickAgain ==
    /\ lc.pc = "idle" /\ lc.polls = MaxPolls
    /\ lc' = [lc EXCEPT !.polls = 0, !.runs = [m \in MsgIds |-> <<>>]]
    /\ UNCHANGED <<inbox, tmux, faults, slingVars, runVars, cliVars>>

\* The inboxes and sessions of InitLifecycle, with a session backend and a
\* store whose calls succeed.
InitForever ==
    /\ StoreInit("absent")
    /\ polecats = {"Toast"}
    /\ worktree = [n \in Names |-> IF n = "Toast" THEN "clean" ELSE "none"]
    /\ mail = {}
    /\ sessions = {}
    /\ nudges = {}
    /\ faults = FALSE
    /\ inv = [p \in Invocations |-> Idle]
    /\ inbox \in [MsgIds -> Messages]
    /\ \E up \in SUBSET Senders :
         tmux = [n \in DaemonSessions |->
                   IF \E i \in up : identityToSession(i) = n
                   THEN [up |-> TRUE, role |-> CHOOSE i \in Senders : identityToSession(i) = n]
                   ELSE SessionDown]
    /\ lc = [pc |-> "idle", batch |-> <<>>, polls |-> 0, runs |-> [m \in MsgIds |-> <<>>]]
    /\ NoRun

NextForever == Poll \/ HandleMessage \/ TickAgain

\* The ticker fires every heartbeat interval and a heartbeat runs to its end:
\* the processor always takes its next step.
SpecForever == InitForever /\ [][NextForever]_vars /\ WF_vars(NextForever)

\* The daemon-inbox message as the listing gives it to the processor.
Listed(m) == [id |-> m, title |-> inbox[m].title, sender |-> inbox[m].sender,
              status |-> inbox[m].status]
\* The message is open and the processor classifies it as a lifecycle request.
OpenRequest(m) == inbox[m].status = "open" /\ parseLifecycleRequest(Listed(m)) # NoRequest

\* C38: with heartbeats that keep occurring and session-backend and store
\* calls that succeed, every open daemon-inbox message the processor
\* classifies as a lifecycle request is eventually closed.
C38_OpenRequestEventuallyClosed ==
    \A m \in MsgIds : OpenRequest(m) ~> (inbox[m].status = "closed")

\* ---------------------------------------------------------------------------
\* Signals and pending ticks.

\* A signal is waiting in sigChan or the context is cancelled.
StopPending(d) == d.sig \/ d.cancelled

\* C39: once an interrupt or terminate signal or a cancellation has been
\* delivered to the running daemon, no new heartbeat cycle starts, also when
\* a tick is pending: a cycle under way ends, and from the select loop the
\* daemon only goes to its shutdown.
C39_NoHeartbeatAfterStopDelivered ==
    [][ (daemon.pc = "select" /\ StopPending(daemon) /\ daemon'.pc # daemon.pc)
          => (daemon'.pc \in {"shutdown", "killed"} /\ daemon'.count = daemon.count
              /\ daemon'.active = daemon.active) ]_vars

\* ---------------------------------------------------------------------------
\* Instance names.

\* C40: parseSlingTarget keeps the instance name as typed: a polecat given by
\* a bare Name (no role word, inside a rig) or as rig/Name resolves to the
\* target of the explicit form rig/polecat/Name, whose name is Name character
\* for character.
C40_NameKeptAsTyped ==
    cli.pc = "parsed" =>
        LET a == cli.arg
        IN  /\ (Len(a) = 1 /\ a[1] # "" /\ ~isAgentRole(a[1]) /\ cli.cwd # "") =>
                  /\ cli.result = parseSlingTarget(<<cli.cwd, "polecat", a[1]>>, cli.cwd)
                  /\ cli.result.target.name = a[1]
            /\ (Len(a) = 2 /\ a[2] # "" /\ ~isAgentRole(a[1]) /\ ~isAgentRole(a[2])) =>
                  /\ cli.result = parseSlingTarget(<<a[1], "polecat", a[2]>>, cli.cwd)
                  /\ cli.result.target.name = a[2]
            /\ (Len(a) = 3 /\ a[3] # "" /\ ToLowerSegment(a[2]) \in {"polecat", "polecats"}) =>
                  cli.result = Parsed("polecat", a[1], a[3])

====
